---- MODULE Spec2Model ----
(***************************************************************************)
(* A model of sqlz, the SQL query builder: the condition algebra, the      *)
(* statement builders and their ToSQL renderers, and the transaction       *)
(* wrapper.                                                                *)
(*                                                                         *)
(* SQL text is modelled as a sequence of tokens.  A token is either a      *)
(* piece of text or a '?' placeholder character.  Every placeholder token  *)
(* carries, as a ghost field v, the value the emitting code (or the caller *)
(* who wrote a raw fragment) means it to stand for; a '?' character that   *)
(* stands for no value at all (the JSONB operators "?", "?!" and "?&")     *)
(* carries NoVal.  strings.Join(parts, " ") is the concatenation of the    *)
(* parts' tokens; parentheses and commas are tokens of their own.          *)
(***************************************************************************)
EXTENDS Integers, Sequences, FiniteSets, TLC

VARIABLES
    bindType, \* the bind type of the driver the DB was opened with
    st,       \* the statement under construction, or None before the constructor
    calls,    \* number of constructor / builder calls made on st
    out,      \* what the last ToSQL of st returned, or None after a builder call
    prev,     \* what the ToSQL before that returned, no builder call in between
    cond,     \* the WhereCondition under construction (SpecCond)
    parsed,   \* what its Parse() returned last, or None
    txn,      \* the TransactionalContext call in progress (SpecTx)
    hist,     \* the TransactionalContext calls that have returned or unwound
    last,     \* the builder call made last on st, with st as it was before it
    jb,       \* the JSONB value under construction and its Parse() result (SpecJSONB)
    ex,       \* the DB's error handlers and the executing call in progress (SpecExec)
    rd,       \* a finished statement and the ToSQL calls running on it (SpecReaders)
    cf        \* the ConflictClause under construction and the calls made on it (SpecConflict)

vars == <<bindType, st, calls, out, prev, cond, parsed, txn, hist, last, jb, ex, rd, cf>>

None == [k |-> "none"]

\* no TransactionalContext call has been made yet
NoCalls == [calls |-> 0, begun |-> 0, commits |-> 0, rollbacks |-> 0]

(***************************************************************************)
(* Bounds of the model.                                                    *)
(***************************************************************************)
MaxDepth == 2     \* nesting depth of And / Or / Not around a leaf condition
MaxIn == 2        \* number of values given to In / NotIn
MaxCalls == 4     \* constructor and builder calls made on one statement
MaxTx == 3        \* TransactionalContext calls made on one DB

(***************************************************************************)
(* Tokens and token sequences.                                             *)
(***************************************************************************)
NoVal == [k |-> "noval"]

Txt(s) == [t |-> "txt", s |-> s, v |-> NoVal, n |-> 0]

QMark(v) == [t |-> "ph", s |-> "?", v |-> v, n |-> 0]

RECURSIVE Concat(_)
Concat(ss) == IF ss = <<>> THEN <<>> ELSE Head(ss) \o Concat(Tail(ss))

\* strings.Join(parts, sep) over token sequences
RECURSIVE Join(_, _)
Join(parts, sep) ==
    IF parts = <<>> THEN <<>>
    ELSE IF Len(parts) = 1 THEN parts[1]
    ELSE parts[1] \o sep \o Join(Tail(parts), sep)

Comma == <<Txt(",")>>

\* the values of the '?' placeholders of a text, from left to right
RECURSIVE PlaceholderValues(_)
PlaceholderValues(sql) ==
    IF sql = <<>> THEN <<>>
    ELSE (IF Head(sql).t = "ph" THEN <<Head(sql).v>> ELSE <<>>)
         \o PlaceholderValues(Tail(sql))

CountPlaceholders(sql) == Len(PlaceholderValues(sql))

(***************************************************************************)
(* Values (Go's interface{}): integers, strings, nil, lists of integers,   *)
(* and IndirectValue.                                                      *)
(***************************************************************************)
IntV(i) == [k |-> "int", i |-> i]

StrV(s) == [k |-> "str", s |-> s]

NilV == [k |-> "nil"]

IntsV(is) == [k |-> "ints", is |-> is]

\* Indirect(value, bindings...): the reference is given tokenised
Indirect(ref, bindings) == [k |-> "indirect", Reference |-> ref, Bindings |-> bindings]

(***************************************************************************)
(* Condition constructors (sqlz.go).  The operator of a condition is a     *)
(* token sequence, since the JSONB operators contain '?' characters.       *)
(***************************************************************************)
SimpleCondition(left, right, op) ==
    [k |-> "simple", Left |-> left, Right |-> right, Operator |-> op]

Eq(col, value) == SimpleCondition(col, value, <<Txt("=")>>)
Ne(col, value) == SimpleCondition(col, value, <<Txt("<>")>>)
Gt(col, value) == SimpleCondition(col, value, <<Txt(">")>>)
Gte(col, value) == SimpleCondition(col, value, <<Txt(">=")>>)
Lt(col, value) == SimpleCondition(col, value, <<Txt("<")>>)
Lte(col, value) == SimpleCondition(col, value, <<Txt("<=")>>)
Like(col, value) == SimpleCondition(col, value, <<Txt("LIKE")>>)
NotLike(col, value) == SimpleCondition(col, value, <<Txt("NOT LIKE")>>)
ILike(col, value) == SimpleCondition(col, value, <<Txt("ILIKE")>>)
IsNull(col) == SimpleCondition(col, NilV, <<Txt("IS NULL")>>)
IsNotNull(col) == SimpleCondition(col, NilV, <<Txt("IS NOT NULL")>>)

\* the operators JSONBOp accepts, tokenised: a '?' character of the operator
\* is a placeholder character of the text that stands for no value
JSONBOperators ==
    [contains    |-> <<Txt("@>")>>,
     containedBy |-> <<Txt("<@")>>,
     hasKey      |-> <<QMark(NoVal)>>,
     hasAnyKey   |-> <<QMark(NoVal), Txt("!")>>,
     hasAllKeys  |-> <<QMark(NoVal), Txt("&")>>,
     concat      |-> <<Txt("||")>>,
     delete      |-> <<Txt("-")>>,
     deletePath  |-> <<Txt("#-")>>]

JSONBOpNames == DOMAIN JSONBOperators

JSONBOp(op, left, value) ==
    IF op \in JSONBOpNames
    THEN SimpleCondition(left, value, JSONBOperators[op])
    ELSE SimpleCondition("", NilV, <<>>)

SQLCond(condition, binds) == [k |-> "sql", Condition |-> condition, Binds |-> binds]

In(col, values) == [k |-> "in", NotIn |-> FALSE, Left |-> col, Right |-> values]
NotIn(col, values) == [k |-> "in", NotIn |-> TRUE, Left |-> col, Right |-> values]

ArrayCondition(left, op, type, right) ==
    [k |-> "array", Left |-> left, Operator |-> op, Type |-> type, Right |-> right]

AnyOf(arr, value) == ArrayCondition(arr, "=", "ANY", value)
EqAny(arr, value) == ArrayCondition(value, "=", "ANY", arr)
NeAny(arr, value) == ArrayCondition(value, "<>", "ANY", arr)
GtAll(arr, value) == ArrayCondition(value, ">", "ALL", arr)
NotLikeAll(arr, value) == ArrayCondition(value, "NOT LIKE", "ALL", arr)

And(conds) == [k |-> "andor", Or |-> FALSE, Conditions |-> conds]
Or(conds) == [k |-> "andor", Or |-> TRUE, Conditions |-> conds]
Not(c) == [k |-> "pre", Pre |-> "NOT", Condition |-> c]

Exists(stmt) == [k |-> "subquery", Stmt |-> stmt, Operator |-> "EXISTS"]
NotExists(stmt) == [k |-> "subquery", Stmt |-> stmt, Operator |-> "NOT EXISTS"]

(***************************************************************************)
(* sqlx.Rebind: the k-th '?' character becomes $k for the DOLLAR bind type *)
(* (PostgreSQL) and stays as it is for the QUESTION bind type.             *)
(***************************************************************************)
BindTypes == {"QUESTION", "DOLLAR"}

RECURSIVE RebindFrom(_, _)
RebindFrom(sql, k) ==
    IF sql = <<>> THEN <<>>
    ELSE IF Head(sql).t = "ph"
         THEN <<[t |-> "dollar", s |-> "$", v |-> Head(sql).v, n |-> k]>>
              \o RebindFrom(Tail(sql), k + 1)
         ELSE <<Head(sql)>> \o RebindFrom(Tail(sql), k)

Rebind(bt, sql) == IF bt = "DOLLAR" THEN RebindFrom(sql, 1) ELSE sql

\* the tail of every ToSQL: "if rebind { asSQL = db.Rebind(asSQL) }"
RebindIf(rebind, ctx, sql) == IF rebind THEN Rebind(ctx.bt, sql) ELSE sql

(***************************************************************************)
(* Rendering.  ctx is the context of one top-level render: ctx.bt is the   *)
(* bind type of the executor, ctx.ord the order in which this run's map    *)
(* iterations happen to visit the column names.                            *)
(***************************************************************************)
Result(sql, bindings) == [sql |-> sql, bindings |-> bindings]

RECURSIVE CondParse(_, _)
RECURSIVE SelectStmtToSQL(_, _, _)
RECURSIVE SQLStmtToSQL(_, _, _)

IndirectValueToSQL(i) == Result(i.Reference, i.Bindings)

SimpleConditionParse(simple) ==
    LET asSQL == <<Txt(simple.Left)>> \o simple.Operator
    IN  IF simple.Right # NilV
        THEN IF simple.Right.k = "indirect"
             THEN Result(asSQL \o simple.Right.Reference, simple.Right.Bindings)
             ELSE Result(asSQL \o <<QMark(simple.Right)>>, <<simple.Right>>)
        ELSE Result(asSQL, <<>>)

SQLConditionParse(c) == Result(c.Condition, c.Binds)

\* strconv.Itoa over the list, joined by ",", inside '{...}'
RECURSIVE JoinInts(_)
JoinInts(is) ==
    IF is = <<>> THEN ""
    ELSE IF Len(is) = 1 THEN ToString(is[1])
    ELSE ToString(is[1]) \o "," \o JoinInts(Tail(is))

ArrayLiteral(is) == "'{" \o JoinInts(is) \o "}'"

ArrayConditionParse(array) ==
    LET left == IF array.Left.k = "indirect"
                THEN Result(array.Left.Reference, array.Left.Bindings)
                ELSE Result(<<QMark(array.Left)>>, <<array.Left>>)
        right == CASE array.Right.k = "str" ->
                        Result(<<Txt(array.Right.s)>>, <<>>)
                   [] array.Right.k = "ints" ->
                        LET binds == StrV(ArrayLiteral(array.Right.is))
                        IN  Result(<<QMark(binds)>>, <<binds>>)
                   [] OTHER ->
                        Result(<<QMark(array.Right)>>, <<array.Right>>)
    IN  Result(left.sql \o <<Txt(array.Operator), Txt(array.Type), Txt("(")>>
                   \o right.sql \o <<Txt(")")>>,
               left.bindings \o right.bindings)

InConditionParse(in) ==
    Result(<<Txt(in.Left)>>
               \o (IF in.NotIn THEN <<Txt("NOT")>> ELSE <<>>)
               \o <<Txt("IN"), Txt("(")>>
               \o Join([i \in 1..Len(in.Right) |-> <<QMark(in.Right[i])>>], Comma)
               \o <<Txt(")")>>,
           in.Right)

AndOrConditionParse(andOr, ctx) ==
    LET inner == [i \in 1..Len(andOr.Conditions) |-> CondParse(andOr.Conditions[i], ctx)]
        op == IF andOr.Or THEN <<Txt("OR")>> ELSE <<Txt("AND")>>
    IN  Result(<<Txt("(")>>
                   \o Join([i \in 1..Len(inner) |-> inner[i].sql], op)
                   \o <<Txt(")")>>,
               Concat([i \in 1..Len(inner) |-> inner[i].bindings]))

PreConditionParse(pre, ctx) ==
    LET inner == CondParse(pre.Condition, ctx)
    IN  Result(<<Txt(pre.Pre), Txt("(")>> \o inner.sql \o <<Txt(")")>>, inner.bindings)

SubqueryConditionParse(subCond, ctx) ==
    LET sub == SQLStmtToSQL(subCond.Stmt, FALSE, ctx)
    IN  Result(<<Txt(subCond.Operator), Txt("(")>> \o sub.sql \o <<Txt(")")>>, sub.bindings)

\* WhereCondition.Parse, by the dynamic type of the condition
CondParse(c, ctx) ==
    CASE c.k = "simple"   -> SimpleConditionParse(c)
      [] c.k = "sql"      -> SQLConditionParse(c)
      [] c.k = "array"    -> ArrayConditionParse(c)
      [] c.k = "in"       -> InConditionParse(c)
      [] c.k = "andor"    -> AndOrConditionParse(c, ctx)
      [] c.k = "pre"      -> PreConditionParse(c, ctx)
      [] c.k = "subquery" -> SubqueryConditionParse(c, ctx)

\* strings.TrimPrefix(strings.TrimSuffix(asSQL, ")"), "(")
TrimParens(asSQL) ==
    LET noSuffix == IF asSQL # <<>> /\ asSQL[Len(asSQL)] = Txt(")")
                    THEN SubSeq(asSQL, 1, Len(asSQL) - 1) ELSE asSQL
    IN  IF noSuffix # <<>> /\ Head(noSuffix) = Txt("(") THEN Tail(noSuffix) ELSE noSuffix

\* if strings.HasPrefix(asSQL, "(") { asSQL = TrimPrefix(TrimSuffix(asSQL, ")"), "(") }
StripGroup(r) ==
    IF r.sql # <<>> /\ Head(r.sql) = Txt("(")
    THEN Result(TrimParens(r.sql), r.bindings)
    ELSE r

\* a variant that leaves the parentheses of the implicit AND group in place
parseConditions_KeepsGroup(conds, ctx) ==
    IF Len(conds) > 1 THEN CondParse(And(conds), ctx)
    ELSE IF Len(conds) = 1 THEN CondParse(conds[1], ctx)
    ELSE Result(<<>>, <<>>)

parseConditions(conds, ctx) ==
    IF Len(conds) = 0 THEN Result(<<>>, <<>>)
    ELSE StripGroup(CondParse(IF Len(conds) > 1 THEN And(conds) ELSE conds[1], ctx))

(***************************************************************************)
(* SelectStmt (select.go).                                                 *)
(***************************************************************************)
JoinTypeNames == <<"INNER", "LEFT", "RIGHT", "FULL">>

InnerJoin == 0
LeftJoin == 1
RightJoin == 2
FullJoin == 3
InnerLateralJoin == 4
LeftLateralJoin == 5
RightLateralJoin == 6

IsLateral(j) == InnerLateralJoin <= j /\ j <= RightLateralJoin

JoinTypeString(j) ==
    <<Txt(JoinTypeNames[(j % 4) + 1]), Txt("JOIN")>>
        \o (IF IsLateral(j) THEN <<Txt("LATERAL")>> ELSE <<>>)

LockForUpdate == 0
LockForNoKeyUpdate == 1
LockForShare == 2
LockForKeyShare == 3

LockDefault == 0
LockNoWait == 1
LockSkipLocked == 2

LockClause(strength) == [Strength |-> strength, Tables |-> <<>>, Wait |-> LockDefault]
ForUpdate == LockClause(LockForUpdate)
ForShare == LockClause(LockForShare)
NoWait(lock) == [lock EXCEPT !.Wait = LockNoWait]

OrderColumn(col, desc) == [k |-> "order", Column |-> col, Desc |-> desc]
Desc(col) == OrderColumn(col, TRUE)

OrderColumnToSQL(o) ==
    Result(<<Txt(o.Column), Txt(IF o.Desc THEN "DESC" ELSE "ASC")>>, <<>>)

\* DB.Select / Tx.Select
Select(cols) ==
    [k |-> "select", IsDistinct |-> FALSE, IsUnionAll |-> FALSE,
     DistinctColumns |-> <<>>, Columns |-> cols, Table |-> "", Joins |-> <<>>,
     Conditions |-> <<>>, Ordering |-> <<>>, Grouping |-> <<>>,
     GroupConditions |-> <<>>, Unions |-> <<>>, Locks |-> <<>>,
     LimitTo |-> 0, OffsetFrom |-> 0, OffsetRows |-> 0,
     orderWithNulls |-> [Enabled |-> FALSE, First |-> FALSE]]

Distinct(stmt, cols) == [stmt EXCEPT !.DistinctColumns = cols, !.IsDistinct = TRUE]
From(stmt, table) == [stmt EXCEPT !.Table = table]

JoinOn(stmt, joinType, table, resultSet, conds) ==
    [stmt EXCEPT !.Joins = Append(@, [Type |-> joinType, Table |-> table,
                                      ResultSet |-> resultSet, Conditions |-> conds])]

LeftJoinOn(stmt, table, conds) == JoinOn(stmt, LeftJoin, table, None, conds)

Where(stmt, conditions) == [stmt EXCEPT !.Conditions = @ \o conditions]
WithNullsFirst(stmt) == [stmt EXCEPT !.orderWithNulls = [Enabled |-> TRUE, First |-> TRUE]]
WithNullsLast(stmt) == [stmt EXCEPT !.orderWithNulls = [Enabled |-> TRUE, First |-> FALSE]]
OrderBy(stmt, cols) == [stmt EXCEPT !.Ordering = @ \o cols]
GroupBy(stmt, cols) == [stmt EXCEPT !.Grouping = @ \o cols]
Having(stmt, conditions) == [stmt EXCEPT !.GroupConditions = @ \o conditions]
\* a variant of Offset that forgets the row count when none is passed
Offset_ResetsRows(stmt, start, rows) ==
    [stmt EXCEPT !.OffsetFrom = start,
                 !.OffsetRows = IF Len(rows) > 0 THEN rows[1] ELSE 0]

\* stmt.Offset(start, rows...)
Offset(stmt, start, rows) ==
    [stmt EXCEPT !.OffsetFrom = start,
                 !.OffsetRows = IF Len(rows) > 0 THEN rows[1] ELSE @]
Lock(stmt, lock) == [stmt EXCEPT !.Locks = Append(@, lock)]
\* a variant of Union that makes the statement a plain UNION again
Union_ResetsAll(stmt, statements) ==
    [stmt EXCEPT !.Unions = @ \o statements, !.IsUnionAll = FALSE]

\* stmt.Union(statements...)
Union(stmt, statements) == [stmt EXCEPT !.Unions = @ \o statements]
UnionAll(stmt, statements) == Union([stmt EXCEPT !.IsUnionAll = TRUE], statements)

\* a variant of Limit that ignores a limit of zero
Limit_KeepsOnZero(stmt, limit) == IF limit = 0 THEN stmt ELSE [stmt EXCEPT !.LimitTo = limit]

\* stmt.Limit(limit)
Limit(stmt, limit) == [stmt EXCEPT !.LimitTo = limit]

\* a variant of the derived statement that keeps the receiver's limit
CountStmt_KeepsLimit(stmt) ==
    [stmt EXCEPT !.Columns = <<"COUNT(*)">>, !.OffsetFrom = 0, !.OffsetRows = 0,
                 !.Ordering = <<>>]

\* the statement GetCount executes: "countStmt = *stmt" and five assignments
CountStmt(stmt) ==
    [stmt EXCEPT !.Columns = <<"COUNT(*)">>, !.LimitTo = 0, !.OffsetFrom = 0,
                 !.OffsetRows = 0, !.Ordering = <<>>]

Names(cols) == Join([i \in 1..Len(cols) |-> <<Txt(cols[i])>>], Comma)

\* a variant that puts the ON conditions' bindings before the result set's
JoinClauseBindings_OnFirst(rsBindings, joinBindings) == joinBindings \o rsBindings

\* the bindings one join adds: the result set's, then the ON conditions'
JoinClauseBindings(rsBindings, joinBindings) == rsBindings \o joinBindings

JoinClauseToSQL(join, ctx) ==
    LET on == parseConditions(join.Conditions, ctx)
    IN  IF join.ResultSet # None
        THEN LET rs == SQLStmtToSQL(join.ResultSet, FALSE, ctx)
             IN  Result(JoinTypeString(join.Type) \o <<Txt("(")>> \o rs.sql
                            \o <<Txt(")"), Txt(join.Table), Txt("ON")>> \o on.sql,
                        JoinClauseBindings(rs.bindings, on.bindings))
        ELSE Result(JoinTypeString(join.Type) \o <<Txt(join.Table), Txt("ON")>> \o on.sql,
                    JoinClauseBindings(<<>>, on.bindings))

LockStrengthString(strength) ==
    CASE strength = LockForUpdate      -> "FOR UPDATE"
      [] strength = LockForNoKeyUpdate -> "FOR NO KEY UPDATE"
      [] strength = LockForShare       -> "FOR SHARE"
      [] strength = LockForKeyShare    -> "FOR KEY SHARE"

LockClauseToSQL(lock) ==
    IF lock.Strength \notin {LockForUpdate, LockForNoKeyUpdate, LockForShare, LockForKeyShare}
    THEN <<>>
    ELSE <<Txt(LockStrengthString(lock.Strength))>>
         \o (IF Len(lock.Tables) > 0 THEN <<Txt("OF")>> \o Names(lock.Tables) ELSE <<>>)
         \o (CASE lock.Wait = LockNoWait     -> <<Txt("NOWAIT")>>
               [] lock.Wait = LockSkipLocked -> <<Txt("SKIP LOCKED")>>
               [] OTHER                      -> <<>>)

\* the clauses of a SELECT, each with the bindings ToSQL appends for it
SelectClauses(stmt, ctx) ==
    LET joins == [i \in 1..Len(stmt.Joins) |-> JoinClauseToSQL(stmt.Joins[i], ctx)]
        where == parseConditions(stmt.Conditions, ctx)
        having == parseConditions(stmt.GroupConditions, ctx)
        ordering == [i \in 1..Len(stmt.Ordering) |->
                        SQLStmtToSQL(stmt.Ordering[i], FALSE, ctx).sql]
        unions == [i \in 1..Len(stmt.Unions) |-> SQLStmtToSQL(stmt.Unions[i], FALSE, ctx)]
        cmd == <<Txt("UNION")>> \o (IF stmt.IsUnionAll THEN <<Txt("ALL")>> ELSE <<>>)
    IN  [head |->
            Result(<<Txt("SELECT")>>
                \o (IF stmt.IsDistinct
                    THEN <<Txt("DISTINCT")>>
                         \o (IF Len(stmt.DistinctColumns) > 0
                             THEN <<Txt("ON"), Txt("(")>> \o Names(stmt.DistinctColumns)
                                      \o <<Txt(")")>>
                             ELSE <<>>)
                    ELSE <<>>)
                \o (IF Len(stmt.Columns) = 0 THEN <<Txt("*")>> ELSE Names(stmt.Columns))
                \o <<Txt("FROM"), Txt(stmt.Table)>>, <<>>),
         joins |->
            Result(Concat([i \in 1..Len(joins) |-> joins[i].sql]),
                   Concat([i \in 1..Len(joins) |-> joins[i].bindings])),
         where |->
            IF Len(stmt.Conditions) > 0
            THEN Result(<<Txt("WHERE")>> \o where.sql, where.bindings)
            ELSE Result(<<>>, <<>>),
         group |->
            IF Len(stmt.Grouping) > 0
            THEN Result(<<Txt("GROUP BY")>> \o Names(stmt.Grouping), <<>>)
            ELSE Result(<<>>, <<>>),
         having |->
            IF Len(stmt.GroupConditions) > 0
            THEN Result(<<Txt("HAVING")>> \o having.sql, having.bindings)
            ELSE Result(<<>>, <<>>),
         order |->
            IF Len(stmt.Ordering) > 0
            THEN Result(<<Txt("ORDER BY")>> \o Join(ordering, Comma)
                            \o (IF stmt.orderWithNulls.Enabled
                                THEN IF stmt.orderWithNulls.First
                                     THEN <<Txt("NULLS FIRST")>>
                                     ELSE <<Txt("NULLS LAST")>>
                                ELSE <<>>),
                        <<>>)
            ELSE Result(<<>>, <<>>),
         limit |->
            IF stmt.LimitTo > 0
            THEN Result(<<Txt("LIMIT"), Txt(ToString(stmt.LimitTo))>>, <<>>)
            ELSE Result(<<>>, <<>>),
         offset |->
            IF stmt.OffsetFrom > 0
            THEN Result(<<Txt("OFFSET"), Txt(ToString(stmt.OffsetFrom))>>
                            \o (IF stmt.OffsetRows > 0
                                THEN <<Txt(ToString(stmt.OffsetRows))>> ELSE <<>>),
                        <<>>)
            ELSE Result(<<>>, <<>>),
         locks |->
            Result(Concat([i \in 1..Len(stmt.Locks) |-> LockClauseToSQL(stmt.Locks[i])]),
                   <<>>),
         unions |->
            Result(Concat([i \in 1..Len(unions) |-> cmd \o unions[i].sql]),
                   Concat([i \in 1..Len(unions) |-> unions[i].bindings]))]

\* a variant that renders OFFSET before LIMIT
ClauseOrder_OffsetFirst ==
    <<"head", "joins", "where", "group", "having", "order", "offset", "limit",
      "locks", "unions">>

\* the order in which ToSQL appends the clauses
ClauseOrder ==
    <<"head", "joins", "where", "group", "having", "order", "limit", "offset",
      "locks", "unions">>

SelectStmtToSQL(stmt, rebind, ctx) ==
    LET c == SelectClauses(stmt, ctx)
    IN  Result(RebindIf(rebind, ctx,
                        Concat([i \in 1..Len(ClauseOrder) |-> c[ClauseOrder[i]].sql])),
               Concat([i \in 1..Len(ClauseOrder) |-> c[ClauseOrder[i]].bindings]))

(***************************************************************************)
(* Maps (Go's map[string]interface{}) are functions from names to values.  *)
(* ColumnNames lists the names the model uses in ascending string order.   *)
(***************************************************************************)
ColumnNames == <<"alpha", "beta", "gamma">>

EmptyMap == <<>>

MapSet(m, col, value) ==
    [c \in (DOMAIN m) \cup {col} |-> IF c = col THEN value ELSE m[c]]

\* "for col, val := range m": the keys of m in this run's iteration order
MapRange(m, ctx) == LET InMap(c) == c \in DOMAIN m IN SelectSeq(ctx.ord, InMap)

\* sortKeys: the keys of m in ascending order
sortKeys(m) == LET InMap(c) == c \in DOMAIN m IN SelectSeq(ColumnNames, InMap)

(***************************************************************************)
(* JSONBBuilder (jsonb.go).  A map value is [k: "map", m], a []interface{} *)
(* value is [k: "list", e].                                                *)
(***************************************************************************)
MapV(m) == [k |-> "map", m |-> m]
ListV(e) == [k |-> "list", e |-> e]

\* a variant that lists each value before its key
BuildJSONBObject_ValueFirst(in) ==
    LET keys == sortKeys(in)
    IN  [k |-> "jsonb", Array |-> FALSE,
         Bindings |-> Concat([i \in 1..Len(keys) |-> <<in[keys[i]], StrV(keys[i])>>])]

\* "for _, key := range sortKeys(in)": the key, then its value
BuildJSONBObject(in) ==
    LET keys == sortKeys(in)
    IN  [k |-> "jsonb", Array |-> FALSE,
         Bindings |-> Concat([i \in 1..Len(keys) |-> <<StrV(keys[i]), in[keys[i]]>>])]

BuildJSONBArray(in) == [k |-> "jsonb", Array |-> TRUE, Bindings |-> in]

RECURSIVE JSONBBuilderParse(_)
JSONBBuilderParse(b) ==
    LET parts == [i \in 1..Len(b.Bindings) |->
                    LET val == b.Bindings[i]
                    IN  CASE val.k = "map"  -> JSONBBuilderParse(BuildJSONBObject(val.m))
                          [] val.k = "list" -> JSONBBuilderParse(BuildJSONBArray(val.e))
                          [] OTHER          -> Result(<<QMark(val)>>, <<val>>)]
    IN  Result(<<Txt(IF b.Array THEN "jsonb_build_array" ELSE "jsonb_build_object"),
                 Txt("(")>>
                   \o Join([i \in 1..Len(parts) |-> parts[i].sql], Comma)
                   \o <<Txt(")")>>,
               Concat([i \in 1..Len(parts) |-> parts[i].bindings]))

(***************************************************************************)
(* UpdateFunction and the rendering of one "col = value" assignment, as    *)
(* UpdateStmt.ToSQL and ConflictClause.ToSQL both do it.                   *)
(***************************************************************************)
UpdateFunction(name, args) == [k |-> "fn", Name |-> name, Arguments |-> args]
ArrayAppend(name, value) ==
    UpdateFunction("array_append", <<Indirect(<<Txt(name)>>, <<>>), value>>)

ArgToSQL(arg) ==
    IF arg.k = "indirect" THEN Result(arg.Reference, arg.Bindings)
    ELSE Result(<<QMark(arg)>>, <<arg>>)

AssignmentToSQL(col, val) ==
    LET lhs == <<Txt(col), Txt("=")>>
    IN  CASE val.k = "fn" ->
                LET args == [i \in 1..Len(val.Arguments) |-> ArgToSQL(val.Arguments[i])]
                IN  Result(lhs \o <<Txt(val.Name), Txt("(")>>
                               \o Join([i \in 1..Len(args) |-> args[i].sql], Comma)
                               \o <<Txt(")")>>,
                           Concat([i \in 1..Len(args) |-> args[i].bindings]))
          [] val.k = "indirect" -> Result(lhs \o val.Reference, val.Bindings)
          [] OTHER -> Result(lhs \o <<QMark(val)>>, <<val>>)

(***************************************************************************)
(* UpdateStmt (update.go).                                                 *)
(***************************************************************************)
Update(table) ==
    [k |-> "update", Table |-> table, Updates |-> EmptyMap, Conditions |-> <<>>,
     Return |-> <<>>, SelectStmt |-> None, SelectStmtAlias |-> ""]

\* a variant of SetIf that assigns whatever the flag is
UpdateSetIf_IgnoresFlag(stmt, col, value, b) ==
    [stmt EXCEPT !.Updates = MapSet(@, col, value)]

\* stmt.SetIf(col, value, b)
UpdateSetIf(stmt, col, value, b) ==
    IF b THEN [stmt EXCEPT !.Updates = MapSet(@, col, value)] ELSE stmt

UpdateSet(stmt, col, value) == UpdateSetIf(stmt, col, value, TRUE)

UpdateSetMap(stmt, updates) ==
    [stmt EXCEPT !.Updates =
        [c \in (DOMAIN @) \cup (DOMAIN updates) |->
            IF c \in DOMAIN updates THEN updates[c] ELSE @[c]]]

UpdateWhere(stmt, conditions) == [stmt EXCEPT !.Conditions = @ \o conditions]
UpdateReturning(stmt, cols) == [stmt EXCEPT !.Return = @ \o cols]
UpdateFromSelect(stmt, selStmt, alias) ==
    [stmt EXCEPT !.SelectStmt = selStmt, !.SelectStmtAlias = alias]

\* "for col, val := range stmt.Updates": the order in which ToSQL visits the map
UpdateColumns(stmt, ctx) == MapRange(stmt.Updates, ctx)

ReturningToSQL(cols) ==
    IF Len(cols) > 0 THEN <<Txt("RETURNING")>> \o Names(cols) ELSE <<>>

UpdateStmtToSQL(stmt, rebind, ctx) ==
    LET cols == UpdateColumns(stmt, ctx)
        updates == [i \in 1..Len(cols) |-> AssignmentToSQL(cols[i], stmt.Updates[cols[i]])]
        from == IF stmt.SelectStmt # None /\ stmt.SelectStmtAlias # ""
                THEN LET sel == SQLStmtToSQL(stmt.SelectStmt, FALSE, ctx)
                     IN  Result(<<Txt("FROM"), Txt("(")>> \o sel.sql
                                    \o <<Txt(")"), Txt("AS"), Txt(stmt.SelectStmtAlias)>>,
                                sel.bindings)
                ELSE Result(<<>>, <<>>)
        where == IF Len(stmt.Conditions) > 0
                 THEN LET w == parseConditions(stmt.Conditions, ctx)
                      IN  Result(<<Txt("WHERE")>> \o w.sql, w.bindings)
                 ELSE Result(<<>>, <<>>)
    IN  Result(RebindIf(rebind, ctx,
                   <<Txt("UPDATE"), Txt(stmt.Table), Txt("SET")>>
                       \o Join([i \in 1..Len(updates) |-> updates[i].sql], Comma)
                       \o from.sql \o where.sql \o ReturningToSQL(stmt.Return)),
               Concat([i \in 1..Len(updates) |-> updates[i].bindings])
                   \o from.bindings \o where.bindings)

(***************************************************************************)
(* DeleteStmt (delete.go).                                                 *)
(***************************************************************************)
DeleteFrom(table) ==
    [k |-> "delete", Table |-> table, Conditions |-> <<>>, Return |-> <<>>]

DeleteWhere(stmt, conds) == [stmt EXCEPT !.Conditions = @ \o conds]
DeleteReturning(stmt, cols) == [stmt EXCEPT !.Return = @ \o cols]

\* stmt.Using(tables...), the call TestDelete makes (delete_test.go:33):
\* DeleteStmt has no such method and no field that could hold the tables, so
\* no statement records them
DeleteUsing(stmt, tables) == stmt

DeleteStmtToSQL(stmt, rebind, ctx) ==
    LET where == IF Len(stmt.Conditions) > 0
                 THEN LET w == parseConditions(stmt.Conditions, ctx)
                      IN  Result(<<Txt("WHERE")>> \o w.sql, w.bindings)
                 ELSE Result(<<>>, <<>>)
    IN  Result(RebindIf(rebind, ctx,
                   <<Txt("DELETE FROM"), Txt(stmt.Table)>> \o where.sql
                       \o ReturningToSQL(stmt.Return)),
               where.bindings)

(***************************************************************************)
(* ConflictClause and InsertStmt (the current insert source).              *)
(***************************************************************************)
DoNothingAction == "nothing"
DoUpdateAction == "update"

OnConflict(targets) ==
    [Targets |-> targets, Action |-> "", SetCols |-> <<>>, SetVals |-> <<>>]

DoNothing(conflict) == [conflict EXCEPT !.Action = DoNothingAction]
DoUpdate(conflict) == [conflict EXCEPT !.Action = DoUpdateAction]

\* a variant that puts a new assignment in front of the earlier ones
ConflictSetIf_Prepend(conflict, col, val, b) ==
    IF conflict.Action # DoUpdateAction THEN conflict
    ELSE IF b THEN [conflict EXCEPT !.SetCols = <<col>> \o @, !.SetVals = <<val>> \o @]
    ELSE conflict

\* "if conflict.Action != DoUpdate { return conflict }; if b { append }"
ConflictSetIf(conflict, col, val, b) ==
    IF conflict.Action # DoUpdateAction THEN conflict
    ELSE IF b THEN [conflict EXCEPT !.SetCols = Append(@, col), !.SetVals = Append(@, val)]
    ELSE conflict

ConflictSet(conflict, col, val) == ConflictSetIf(conflict, col, val, TRUE)

\* a variant of SetMap that does not look at the action of the clause
ConflictSetMap_AnyAction(conflict, vals) ==
    LET keys == sortKeys(vals)
    IN  [conflict EXCEPT !.SetCols = @ \o keys,
                         !.SetVals = @ \o [i \in 1..Len(keys) |-> vals[keys[i]]]]

\* "if conflict.Action != DoUpdate { return conflict }; for col in sortKeys(vals) { append }"
ConflictSetMap(conflict, vals) ==
    IF conflict.Action # DoUpdateAction THEN conflict
    ELSE LET keys == sortKeys(vals)
         IN  [conflict EXCEPT !.SetCols = @ \o keys,
                              !.SetVals = @ \o [i \in 1..Len(keys) |-> vals[keys[i]]]]

ConflictClauseToSQL(conflict) ==
    LET head == <<Txt("ON CONFLICT")>>
                    \o (IF Len(conflict.Targets) > 0
                        THEN <<Txt("(")>> \o Names(conflict.Targets) \o <<Txt(")")>>
                        ELSE <<>>)
        updates == [i \in 1..Len(conflict.SetCols) |->
                        AssignmentToSQL(conflict.SetCols[i], conflict.SetVals[i])]
    IN  CASE conflict.Action = DoNothingAction -> Result(head \o <<Txt("DO NOTHING")>>, <<>>)
          [] conflict.Action = DoUpdateAction ->
                Result(head \o <<Txt("DO UPDATE SET")>>
                           \o Join([i \in 1..Len(updates) |-> updates[i].sql], Comma),
                       Concat([i \in 1..Len(updates) |-> updates[i].bindings]))
          [] OTHER -> Result(head, <<>>)

InsertInto(table) ==
    [k |-> "insert", InsCols |-> <<>>, InsVals |-> <<>>, InsMultipleVals |-> <<>>,
     SelectStmt |-> None, Table |-> table, Return |-> <<>>, Conflicts |-> <<>>,
     sqliteConflict |-> ""]

Columns(stmt, cols) == [stmt EXCEPT !.InsCols = @ \o cols]
Values(stmt, vals) == [stmt EXCEPT !.InsVals = @ \o vals]
\* a variant that appends the values in the opposite order to the columns
ValueMap_ValuesReversed(stmt, vals) ==
    LET keys == sortKeys(vals)
    IN  [stmt EXCEPT !.InsCols = @ \o keys,
                     !.InsVals = @ \o [i \in 1..Len(keys) |-> vals[keys[Len(keys) + 1 - i]]]]

\* "for _, col := range sortKeys(vals)": one column and one value per key
ValueMap(stmt, vals) ==
    LET keys == sortKeys(vals)
    IN  [stmt EXCEPT !.InsCols = @ \o keys,
                     !.InsVals = @ \o [i \in 1..Len(keys) |-> vals[keys[i]]]]
ValueMultiple(stmt, vals) == [stmt EXCEPT !.InsMultipleVals = @ \o vals]
InsertFromSelect(stmt, selStmt) == [stmt EXCEPT !.SelectStmt = selStmt]
InsertReturning(stmt, cols) == [stmt EXCEPT !.Return = @ \o cols]
OrIgnore(stmt) == [stmt EXCEPT !.sqliteConflict = "IGNORE"]
OrReplace(stmt) == [stmt EXCEPT !.sqliteConflict = "REPLACE"]
InsertOnConflict(stmt, clause) == [stmt EXCEPT !.Conflicts = Append(@, clause)]

parseInsertValues(insVals) ==
    LET parts == [i \in 1..Len(insVals) |->
                    LET val == insVals[i]
                    IN  CASE val.k = "indirect" -> Result(val.Reference, val.Bindings)
                          [] val.k = "jsonb"    -> JSONBBuilderParse(val)
                          [] OTHER              -> Result(<<QMark(val)>>, <<val>>)]
    IN  [placeholders |-> [i \in 1..Len(parts) |-> parts[i].sql],
         bindingsToAdd |-> Concat([i \in 1..Len(parts) |-> parts[i].bindings])]

ValuesRowToSQL(insVals) ==
    LET p == parseInsertValues(insVals)
    IN  Result(<<Txt("(")>> \o Join(p.placeholders, Comma) \o <<Txt(")")>>, p.bindingsToAdd)

\* a variant of the switch that prefers Values over a SELECT source
InsertRowSource_ValuesFirst(stmt) ==
    CASE Len(stmt.InsVals) > 0          -> "values"
      [] stmt.SelectStmt # None         -> "select"
      [] Len(stmt.InsMultipleVals) > 0  -> "multiple"
      [] OTHER                          -> "none"

\* the switch of InsertStmt.ToSQL: which row source is rendered
InsertRowSource(stmt) ==
    CASE stmt.SelectStmt # None         -> "select"
      [] Len(stmt.InsVals) > 0          -> "values"
      [] Len(stmt.InsMultipleVals) > 0  -> "multiple"
      [] OTHER                          -> "none"

InsertRowsToSQL(stmt, ctx) ==
    LET source == InsertRowSource(stmt)
    IN  CASE source = "select" -> SQLStmtToSQL(stmt.SelectStmt, FALSE, ctx)
          [] source = "values" ->
                LET row == ValuesRowToSQL(stmt.InsVals)
                IN  Result(<<Txt("VALUES")>> \o row.sql, row.bindings)
          [] source = "multiple" ->
                LET rows == [i \in 1..Len(stmt.InsMultipleVals) |->
                                ValuesRowToSQL(stmt.InsMultipleVals[i])]
                IN  Result(<<Txt("VALUES")>>
                               \o Join([i \in 1..Len(rows) |-> rows[i].sql], Comma),
                           Concat([i \in 1..Len(rows) |-> rows[i].bindings]))
          [] OTHER -> Result(<<>>, <<>>)

InsertStmtToSQL(stmt, rebind, ctx) ==
    LET rows == InsertRowsToSQL(stmt, ctx)
        conflicts == [i \in 1..Len(stmt.Conflicts) |-> ConflictClauseToSQL(stmt.Conflicts[i])]
    IN  Result(RebindIf(rebind, ctx,
                   <<Txt(IF stmt.sqliteConflict # ""
                         THEN "INSERT OR " \o stmt.sqliteConflict ELSE "INSERT"),
                     Txt("INTO"), Txt(stmt.Table)>>
                       \o (IF Len(stmt.InsCols) > 0
                           THEN <<Txt("(")>> \o Names(stmt.InsCols) \o <<Txt(")")>>
                           ELSE <<>>)
                       \o rows.sql
                       \o Concat([i \in 1..Len(conflicts) |-> conflicts[i].sql])
                       \o ReturningToSQL(stmt.Return)),
               rows.bindings \o Concat([i \in 1..Len(conflicts) |-> conflicts[i].bindings]))

(***************************************************************************)
(* SetCmd (set.go).                                                        *)
(***************************************************************************)
SetCmd(configParam, value) ==
    [k |-> "set", level |-> "", configParam |-> configParam, value |-> value]

Local(cmd) == [cmd EXCEPT !.level = "LOCAL"]
Session(cmd) == [cmd EXCEPT !.level = "SESSION"]

SetCmdToSQL(cmd, rebind, ctx) ==
    Result(RebindIf(rebind, ctx,
               <<Txt("SET")>> \o (IF cmd.level # "" THEN <<Txt(cmd.level)>> ELSE <<>>)
                   \o <<Txt(cmd.configParam), Txt("TO"), Txt(cmd.value)>>),
           <<>>)

(***************************************************************************)
(* WithStmt (with.go).  ToSQL rebinds with its own executor whatever the   *)
(* rebind argument is.                                                     *)
(***************************************************************************)
With(stmt, as) ==
    [k |-> "with", AuxStmts |-> <<[Stmt |-> stmt, As |-> as]>>, MainStmt |-> None]

WithAnd(stmt, auxStmt, as) ==
    [stmt EXCEPT !.AuxStmts = Append(@, [Stmt |-> auxStmt, As |-> as])]

Then(stmt, mainStmt) == [stmt EXCEPT !.MainStmt = mainStmt]

\* a variant that puts the main statement's bindings first
WithBindings_MainFirst(auxBindings, mainBindings) == mainBindings \o auxBindings

\* the bindings of a WITH: the auxiliary statements', then the main statement's
WithBindings(auxBindings, mainBindings) == auxBindings \o mainBindings

WithStmtToSQL(stmt, rebind, ctx) ==
    LET auxs == [i \in 1..Len(stmt.AuxStmts) |->
                    SQLStmtToSQL(stmt.AuxStmts[i].Stmt, FALSE, ctx)]
        main == SQLStmtToSQL(stmt.MainStmt, FALSE, ctx)
    IN  Result(Rebind(ctx.bt,
                   <<Txt("WITH")>>
                       \o Join([i \in 1..Len(auxs) |->
                                   <<Txt(stmt.AuxStmts[i].As), Txt("AS"), Txt("(")>>
                                       \o auxs[i].sql \o <<Txt(")")>>], Comma)
                       \o main.sql),
               WithBindings(Concat([i \in 1..Len(auxs) |-> auxs[i].bindings]),
                            main.bindings))

\* SQLStmt.ToSQL, by the dynamic type of the statement
SQLStmtToSQL(s, rebind, ctx) ==
    CASE s.k = "select"   -> SelectStmtToSQL(s, rebind, ctx)
      [] s.k = "insert"   -> InsertStmtToSQL(s, rebind, ctx)
      [] s.k = "update"   -> UpdateStmtToSQL(s, rebind, ctx)
      [] s.k = "delete"   -> DeleteStmtToSQL(s, rebind, ctx)
      [] s.k = "with"     -> WithStmtToSQL(s, rebind, ctx)
      [] s.k = "set"      -> SetCmdToSQL(s, rebind, ctx)
      [] s.k = "indirect" -> IndirectValueToSQL(s)
      [] s.k = "order"    -> OrderColumnToSQL(s)

(***************************************************************************)
(* One top-level ToSQL call.  A WithStmt without a main statement makes    *)
(* ToSQL dereference a nil SQLStmt, which panics.  ToSQL has the results   *)
(* (asSQL string, bindings []interface{}): it has no error result, so the  *)
(* err field of an outcome is never set.                                   *)
(***************************************************************************)
RECURSIVE Perms(_)
Perms(S) ==
    IF S = {} THEN {<<>>}
    ELSE UNION {{<<x>> \o p : p \in Perms(S \ {x})} : x \in S}

\* the map keys a render of s iterates over with "range"
RECURSIVE RangedKeys(_)
RangedKeys(s) ==
    CASE s.k = "update" -> DOMAIN s.Updates
      [] s.k = "with"   ->
            UNION ({RangedKeys(s.AuxStmts[i].Stmt) : i \in 1..Len(s.AuxStmts)}
                   \cup {IF s.MainStmt = None THEN {} ELSE RangedKeys(s.MainStmt)})
      [] OTHER          -> {}

\* the iteration orders the Go runtime may pick for the maps of s
Orders(s) == Perms(RangedKeys(s))

Outcome(r, rebind, ctx, panic) ==
    [sql |-> r.sql, bindings |-> r.bindings, rebind |-> rebind, ord |-> ctx.ord,
     err |-> FALSE, panic |-> panic]

Render(s, rebind, ctx) ==
    IF s.k = "with" /\ s.MainStmt = None
    THEN Outcome(Result(<<>>, <<>>), rebind, ctx, TRUE)
    ELSE Outcome(SQLStmtToSQL(s, rebind, ctx), rebind, ctx, FALSE)

(***************************************************************************)
(* Inputs of the builder calls.                                            *)
(***************************************************************************)
TableNames == {"t", ""}
UsingTables == <<"other", "another">>

Similarity ==
    Indirect(<<Txt("similarity"), Txt("("), Txt("name"), Txt(","), QMark(StrV("q")),
               Txt(")")>>, <<StrV("q")>>)
Now == Indirect(<<Txt("NOW"), Txt("("), Txt(")")>>, <<>>)
AuxId == Indirect(<<Txt("aux.id")>>, <<>>)

SubSelect == Where(From(Select(<<"id">>), "s"), <<Eq("kind", IntV(7))>>)
UnionSelect == Where(From(Select(<<"id">>), "u"), <<Eq("kind", IntV(9))>>)

WhereArgs ==
    {<<Eq("alpha", IntV(1))>>,
     <<In("beta", <<IntV(2), IntV(3)>>), Exists(SubSelect)>>}
HavingArgs == {<<Gt("COUNT(*)", IntV(5))>>}
OrderByArgs == {<<Desc("alpha")>>, <<Similarity>>}
JoinArgs == {<<Eq("j.id", Indirect(<<Txt("t.id")>>, <<>>))>>}
JoinRSArgs == {<<Eq("x.kind", IntV(8))>>}
JoinRSTypes == {InnerJoin}
LimitArgs == {10, 0}
OffsetArgs == {20, 0}

ValuesArgs == {<<IntV(1), Now>>}
\* jsonb_build_object over a map with a nested list
Doc ==
    BuildJSONBObject([c \in {"alpha", "beta"} |->
                         IF c = "alpha" THEN ListV(<<IntV(7), StrV("x")>>) ELSE StrV("b")])
ValueMapArgs ==
    {[c \in {"alpha", "beta", "gamma"} |->
         CASE c = "alpha" -> IntV(2)
           [] c = "beta"  -> Similarity
           [] c = "gamma" -> Doc]}
ValueMultipleArgs == {<<<<IntV(3), IntV(4)>>, <<IntV(5), Now>>>>}
ConflictClauses ==
    {DoNothing(OnConflict(<<"alpha">>)),
     ConflictSet(DoUpdate(OnConflict(<<"alpha">>)), "beta", IntV(6))}

SetValue ==
    [c \in {"alpha", "beta", "gamma"} |->
        CASE c = "alpha" -> IntV(1)
          [] c = "beta"  -> Similarity
          [] c = "gamma" -> ArrayAppend("gamma", IntV(3))]
SetMapArgs == {[c \in {"alpha", "beta"} |-> IF c = "alpha" THEN IntV(4) ELSE IntV(5)]}

AuxStmts == {SubSelect}
MainStmts ==
    {Values(Columns(InsertInto("t2"), <<"sid", "other">>), <<AuxId, IntV(4)>>),
     DeleteWhere(DeleteFrom("r"), <<Eq("sid", AuxId), Lt("value", IntV(2))>>),
     UpdateSet(UpdateSet(Update("t"), "alpha", IntV(1)), "beta", AuxId)}

(***************************************************************************)
(* The statement builder as a state machine: a constructor call, then any  *)
(* builder calls and ToSQL calls in any order.                             *)
(***************************************************************************)
Init ==
    /\ bindType \in BindTypes
    /\ st = None
    /\ calls = 0
    /\ out = None
    /\ prev = None
    /\ cond = None
    /\ parsed = None
    /\ txn = None
    /\ hist = NoCalls
    /\ last = None
    /\ jb = None
    /\ ex = None
    /\ rd = None
    /\ cf = None

\* a constructor call of DB / Tx: the first call
Constructing == st = None

Constructed ==
    /\ calls' = 1
    /\ UNCHANGED <<bindType, out, prev, cond, parsed, txn, hist, last, jb, ex, rd, cf>>

\* a builder call on a statement of the given kind
Building(kind) ==
    /\ st.k = kind
    /\ calls < MaxCalls

Returned ==
    /\ calls' = calls + 1
    /\ out' = None
    /\ prev' = None
    /\ UNCHANGED <<bindType, cond, parsed, txn, hist, jb, ex, rd, cf>>

Built == Returned /\ last' = None

\* the same, remembering which method was called on which statement
BuiltBy(op) == Returned /\ last' = [op |-> op, before |-> st]
BuiltWith(op, arg) == Returned /\ last' = [op |-> op, before |-> st, arg |-> arg]

CallSelect == Constructing /\ st' = Select(<<"id">>) /\ Constructed
CallFrom == (Building("select") /\ st' = From(st, "t") /\ Built)
CallDistinct == Building("select") /\ st' = Distinct(st, <<>>) /\ Built
CallWhere == \E conds \in WhereArgs : (Building("select") /\ st' = Where(st, conds) /\ Built)
CallHaving == \E conds \in HavingArgs : (Building("select") /\ st' = Having(st, conds) /\ Built)
CallGroupBy == (Building("select") /\ st' = GroupBy(st, <<"alpha">>) /\ Built)
CallOrderBy == \E cols \in OrderByArgs : (Building("select") /\ st' = OrderBy(st, cols) /\ Built)
CallWithNulls ==
    \/ (Building("select") /\ st' = WithNullsFirst(st) /\ Built)
    \/ (Building("select") /\ st' = WithNullsLast(st) /\ Built)
CallJoin == \E conds \in JoinArgs : (Building("select") /\ st' = LeftJoinOn(st, "j", conds) /\ Built)
CallJoinRS ==
    \E conds \in JoinRSArgs, type \in JoinRSTypes :
        (Building("select") /\ st' = JoinOn(st, type, "x", SubSelect, conds) /\ Built)
CallLimit == Building("select") /\ st' = Limit(st, 10) /\ Built
CallOffset == (Building("select") /\ st' = Offset(st, 20, <<>>) /\ Built)
CallLock == (Building("select") /\ st' = Lock(st, NoWait(ForUpdate)) /\ Built)
CallUnion ==
    \/ (Building("select") /\ st' = Union(st, <<UnionSelect>>) /\ Built)
    \/ (Building("select") /\ st' = UnionAll(st, <<UnionSelect>>) /\ Built)

CallInsertInto == \E table \in TableNames : (Constructing /\ st' = InsertInto(table) /\ Constructed)
CallColumns == (Building("insert") /\ st' = Columns(st, <<"alpha", "beta">>) /\ Built)
CallValues == \E vals \in ValuesArgs : (Building("insert") /\ st' = Values(st, vals) /\ Built)
CallValueMap ==
    \E vals \in ValueMapArgs : (Building("insert") /\ st' = ValueMap(st, vals) /\ BuiltBy("ValueMap"))
CallValueMultiple ==
    \E vals \in ValueMultipleArgs : (Building("insert") /\ st' = ValueMultiple(st, vals) /\ Built)
CallInsertFromSelect == (Building("insert") /\ st' = InsertFromSelect(st, SubSelect) /\ Built)
CallInsertReturning == (Building("insert") /\ st' = InsertReturning(st, <<"id">>) /\ Built)
CallOnConflict ==
    \E clause \in ConflictClauses : (Building("insert") /\ st' = InsertOnConflict(st, clause) /\ Built)
CallOrIgnore ==
    \/ (Building("insert") /\ st' = OrIgnore(st) /\ Built)
    \/ (Building("insert") /\ st' = OrReplace(st) /\ Built)

CallUpdate == \E table \in TableNames : (Constructing /\ st' = Update(table) /\ Constructed)
CallSet == \E col \in DOMAIN SetValue : (Building("update") /\ st' = UpdateSet(st, col, SetValue[col]) /\ Built)
CallSetIf ==
    \E b \in BOOLEAN :
        (Building("update") /\ st' = UpdateSetIf(st, "alpha", IntV(2), b) /\ BuiltWith("SetIf", b))
CallSetMap == \E updates \in SetMapArgs : (Building("update") /\ st' = UpdateSetMap(st, updates) /\ Built)
CallUpdateWhere == \E conds \in WhereArgs : (Building("update") /\ st' = UpdateWhere(st, conds) /\ Built)
CallUpdateReturning == (Building("update") /\ st' = UpdateReturning(st, <<"id">>) /\ Built)
CallUpdateFromSelect ==
    \E alias \in {"src", ""} : (Building("update") /\ st' = UpdateFromSelect(st, SubSelect, alias) /\ Built)

CallDeleteFrom == \E table \in TableNames : (Constructing /\ st' = DeleteFrom(table) /\ Constructed)
CallDeleteWhere == \E conds \in WhereArgs : (Building("delete") /\ st' = DeleteWhere(st, conds) /\ Built)
CallDeleteReturning == (Building("delete") /\ st' = DeleteReturning(st, <<"id">>) /\ Built)
CallDeleteUsing ==
    /\ Building("delete")
    /\ st' = DeleteUsing(st, UsingTables)
    /\ Returned
    /\ last' = [op |-> "Using", before |-> st, arg |-> UsingTables]

CallWith == \E aux \in AuxStmts : (Constructing /\ st' = With(aux, "aux") /\ Constructed)
CallAnd == (Building("with") /\ st' = WithAnd(st, UnionSelect, "other") /\ Built)
CallThen == \E main \in MainStmts : (Building("with") /\ st' = Then(st, main) /\ Built)

CallSetCmd == (Constructing /\ st' = SetCmd("search_path", "public") /\ Constructed)
CallLocal == (Building("set") /\ st' = Local(st) /\ Built)
CallSession == (Building("set") /\ st' = Session(st) /\ Built)

\* stmt.ToSQL(rebind), and once more with the same argument
ToSQL ==
    /\ st # None
    /\ prev = None
    /\ \E rebind \in BOOLEAN, ord \in Orders(st) :
          /\ out # None => rebind = out.rebind
          /\ out' = Render(st, rebind, [bt |-> bindType, ord |-> ord])
    /\ prev' = out
    /\ UNCHANGED <<bindType, st, calls, cond, parsed, txn, hist, last, jb, ex, rd, cf>>

Next ==
    \/ CallSelect \/ CallFrom \/ CallDistinct \/ CallWhere \/ CallHaving
    \/ CallGroupBy \/ CallOrderBy \/ CallWithNulls \/ CallJoin \/ CallJoinRS
    \/ CallLimit \/ CallOffset \/ CallLock \/ CallUnion
    \/ CallInsertInto \/ CallColumns \/ CallValues \/ CallValueMap
    \/ CallValueMultiple \/ CallInsertFromSelect \/ CallInsertReturning
    \/ CallOnConflict \/ CallOrIgnore
    \/ CallUpdate \/ CallSet \/ CallSetIf \/ CallSetMap \/ CallUpdateWhere
    \/ CallUpdateReturning \/ CallUpdateFromSelect
    \/ CallDeleteFrom \/ CallDeleteWhere \/ CallDeleteReturning \/ CallDeleteUsing
    \/ CallWith \/ CallAnd \/ CallThen
    \/ CallSetCmd \/ CallLocal \/ CallSession
    \/ ToSQL

Spec == Init /\ [][Next]_vars

(***************************************************************************)
(* The condition algebra as a state machine: a constructor of a leaf       *)
(* condition, then Not / And / Or around what was built, and Parse.        *)
(***************************************************************************)
CompareOps == {"Eq", "Ne", "Gt", "Gte", "Lt", "Lte", "Like", "NotLike", "ILike"}

Comparison(f, col, value) ==
    CASE f = "Eq"      -> Eq(col, value)
      [] f = "Ne"      -> Ne(col, value)
      [] f = "Gt"      -> Gt(col, value)
      [] f = "Gte"     -> Gte(col, value)
      [] f = "Lt"      -> Lt(col, value)
      [] f = "Lte"     -> Lte(col, value)
      [] f = "Like"    -> Like(col, value)
      [] f = "NotLike" -> NotLike(col, value)
      [] f = "ILike"   -> ILike(col, value)

ArrayOps == {"Any", "EqAny", "NeAny", "GtAll", "NotLikeAll"}

ArrayComparison(f, arr, value) ==
    CASE f = "Any"        -> AnyOf(arr, value)
      [] f = "EqAny"      -> EqAny(arr, value)
      [] f = "NeAny"      -> NeAny(arr, value)
      [] f = "GtAll"      -> GtAll(arr, value)
      [] f = "NotLikeAll" -> NotLikeAll(arr, value)

CondValues == {IntV(1), Similarity}
ArrayValues == {StrV("tags"), IntsV(<<1, 2>>), Similarity}

\* a raw condition with n '?' placeholders, given n binds
RawCondition(n) ==
    SQLCond(<<Txt("score BETWEEN")>>
                \o Join([i \in 1..n |-> <<QMark(IntV(10 * i))>>], <<Txt("AND")>>),
            [i \in 1..n |-> IntV(10 * i)])

Operands == {Eq("beta", IntV(2)), IsNull("gamma")}

RECURSIVE CondDepth(_)
CondDepth(c) ==
    CASE c.k = "pre"   -> 1 + CondDepth(c.Condition)
      [] c.k = "andor" -> 1 + CondDepth(c.Conditions[1])
      [] OTHER         -> 0

InitCond ==
    /\ bindType \in BindTypes
    /\ st = None
    /\ calls = 0
    /\ out = None
    /\ prev = None
    /\ cond = None
    /\ parsed = None
    /\ txn = None
    /\ hist = NoCalls
    /\ last = None
    /\ jb = None
    /\ ex = None
    /\ rd = None
    /\ cf = None

CondBuilt ==
    /\ parsed' = None
    /\ UNCHANGED <<bindType, st, calls, out, prev, txn, hist, last, jb, ex, rd, cf>>

NewComparison ==
    \E f \in CompareOps, value \in CondValues \cup {NilV} :
        cond = None /\ cond' = Comparison(f, "alpha", value) /\ CondBuilt

NewNullCheck ==
    \/ cond = None /\ cond' = IsNull("alpha") /\ CondBuilt
    \/ cond = None /\ cond' = IsNotNull("alpha") /\ CondBuilt

NewJSONBOp ==
    \E op \in JSONBOpNames \cup {"unsupported"} :
        cond = None /\ cond' = JSONBOp(op, "data", StrV("key")) /\ CondBuilt

NewIn ==
    \E n \in 0..MaxIn, notIn \in BOOLEAN :
        /\ cond = None
        /\ cond' = IF notIn THEN NotIn("alpha", [i \in 1..n |-> IntV(i)])
                            ELSE In("alpha", [i \in 1..n |-> IntV(i)])
        /\ CondBuilt

NewArrayCondition ==
    \E f \in ArrayOps, arr \in ArrayValues, value \in CondValues :
        cond = None /\ cond' = ArrayComparison(f, arr, value) /\ CondBuilt

NewSQLCond ==
    \E n \in 0..2 : cond = None /\ cond' = RawCondition(n) /\ CondBuilt

NewExists ==
    \/ cond = None /\ cond' = Exists(SubSelect) /\ CondBuilt
    \/ cond = None /\ cond' = NotExists(SubSelect) /\ CondBuilt

Wrappable == cond # None /\ CondDepth(cond) < MaxDepth

WrapNot == Wrappable /\ cond' = Not(cond) /\ CondBuilt

WrapAnd ==
    \E other \in Operands : Wrappable /\ cond' = And(<<cond, other>>) /\ CondBuilt

WrapOr ==
    \E other \in Operands : Wrappable /\ cond' = Or(<<cond, other>>) /\ CondBuilt

\* cond.Parse()
Parse ==
    /\ cond # None
    /\ parsed = None
    /\ parsed' = CondParse(cond, [bt |-> bindType, ord |-> <<>>])
    /\ UNCHANGED <<bindType, st, calls, out, prev, cond, txn, hist, last, jb, ex, rd, cf>>

NextCond ==
    \/ NewComparison \/ NewNullCheck \/ NewJSONBOp \/ NewIn \/ NewArrayCondition
    \/ NewSQLCond \/ NewExists \/ WrapNot \/ WrapAnd \/ WrapOr \/ Parse

SpecCond == InitCond /\ [][NextCond]_vars

(***************************************************************************)
(* DB.TransactionalContext (sqlz.go) as a state machine.  txn is the call  *)
(* in progress: where it stands, whether BeginTxx gave it a transaction,   *)
(* how often it called Commit and Rollback on it, what the callback and    *)
(* Rollback returned, and what the call returns.  A panic of the callback  *)
(* unwinds the call: the function has no deferred call and no recover.     *)
(***************************************************************************)
NoError == [k |-> "nil"]

Error(msg) == [k |-> "error", msg |-> msg, wraps |-> NoError]

\* fmt.Errorf(msg + ": %w", err)
Wrap(msg, err) == [k |-> "error", msg |-> msg, wraps |-> err]

\* errors.Is(err, target)
RECURSIVE ErrorIs(_, _)
ErrorIs(err, target) ==
    IF err = target THEN TRUE
    ELSE IF err = NoError THEN FALSE
    ELSE ErrorIs(err.wraps, target)

BeginErrors == {NoError, Error("begin refused")}
CallbackErrors == {Error("callback failed"), Error("constraint violated")}
RollbackErrors == {NoError, Error("rollback refused")}
CommitErrors == {NoError, Error("commit refused")}

InitTx ==
    /\ bindType \in BindTypes
    /\ st = None
    /\ calls = 0
    /\ out = None
    /\ prev = None
    /\ cond = None
    /\ parsed = None
    /\ txn = None
    /\ hist = NoCalls
    /\ last = None
    /\ jb = None
    /\ ex = None
    /\ rd = None
    /\ cf = None

TxUnchanged == UNCHANGED <<bindType, st, calls, out, prev, cond, parsed, last, jb, ex, rd, cf>>

\* *sql.TxOptions values, and the contexts a caller may pass
TxOptions == {[Isolation |-> "serializable", ReadOnly |-> FALSE],
              [Isolation |-> "default", ReadOnly |-> TRUE]}
Contexts == {"Background", "request"}

\* the lists of options Transactional is called with
OptsLists ==
    {<<>>} \cup {<<o>> : o \in TxOptions}
        \cup {o \in TxOptions \X TxOptions : o[1] # o[2]}

\* a direct call db.TransactionalContext(ctx, opts, f)
TransactionalContext(ctx, opts) == [ctx |-> ctx, opts |-> opts, given |-> None]

\* a variant of Transactional that passes on the first option given
Transactional_FirstOption(opts) ==
    [ctx   |-> "Background",
     opts  |-> IF Len(opts) > 0 THEN opts[1] ELSE NilV,
     given |-> [list |-> opts]]

\* db.Transactional(f, opts...): the TransactionalContext call it makes
Transactional(opts) ==
    [ctx   |-> "Background",
     opts  |-> IF Len(opts) > 0 THEN opts[Len(opts)] ELSE NilV,
     given |-> [list |-> opts]]

\* the calls that enter TransactionalContext
Entries ==
    {TransactionalContext("request", opts) : opts \in {NilV} \cup TxOptions}
        \cup {Transactional(opts) : opts \in OptsLists}

\* tx, err := db.BeginTxx(ctx, opts), and the return when it fails
BeginTxx ==
    \E err \in BeginErrors, entry \in Entries :
        /\ txn = None
        /\ hist.calls < MaxTx
        /\ txn' = [pc       |-> IF err # NoError THEN "returned" ELSE "callback",
                   ctx       |-> entry.ctx,
                   opts      |-> entry.opts,
                   given     |-> entry.given,
                   bgErr     |-> err,
                   begun     |-> err = NoError,
                   commits   |-> 0,
                   rollbacks |-> 0,
                   cbRuns    |-> 0,
                   cbErr     |-> NoError,
                   rbErr     |-> NoError,
                   cmErr     |-> NoError,
                   ret       |-> IF err # NoError
                                 THEN Wrap("failed starting transaction", err)
                                 ELSE NoError]
        /\ UNCHANGED hist
        /\ TxUnchanged

\* err = f(&Tx{...}) returns
CallbackReturns ==
    \E err \in {NoError} \cup CallbackErrors :
        /\ txn # None
        /\ txn.pc = "callback"
        /\ txn' = [txn EXCEPT !.pc = IF err # NoError THEN "rollback" ELSE "commit",
                              !.cbRuns = @ + 1,
                              !.cbErr = err]
        /\ UNCHANGED hist
        /\ TxUnchanged

\* f(&Tx{...}) panics
CallbackPanics ==
    /\ txn # None
    /\ txn.pc = "callback"
    /\ txn' = [txn EXCEPT !.pc = "panicked", !.cbRuns = @ + 1]
    /\ UNCHANGED hist
    /\ TxUnchanged

\* a variant that reports a failed Rollback as a wrapped error
RollbackResult_Wrapped(cbErr, rbErr) ==
    IF rbErr # NoError THEN Wrap("failed rolling back transaction", rbErr) ELSE cbErr

\* what the call returns after "tx.Rollback() //nolint: errcheck"
RollbackResult(cbErr, rbErr) == cbErr

\* if err != nil { tx.Rollback(); return err }
Rollback ==
    \E err \in RollbackErrors :
        /\ txn # None
        /\ txn.pc = "rollback"
        /\ txn' = [txn EXCEPT !.pc = "returned",
                              !.rollbacks = @ + 1,
                              !.rbErr = err,
                              !.ret = RollbackResult(txn.cbErr, err)]
        /\ UNCHANGED hist
        /\ TxUnchanged

\* err = tx.Commit(), and the two returns after it
Commit ==
    \E err \in CommitErrors :
        /\ txn # None
        /\ txn.pc = "commit"
        /\ txn' = [txn EXCEPT !.pc = "returned",
                              !.commits = @ + 1,
                              !.cmErr = err,
                              !.ret = IF err # NoError
                                      THEN Wrap("failed committing transaction", err)
                                      ELSE NoError]
        /\ UNCHANGED hist
        /\ TxUnchanged

\* control has left the call; the caller goes on
Leave ==
    /\ txn # None
    /\ txn.pc \in {"returned", "panicked"}
    /\ hist' = [calls     |-> hist.calls + 1,
                begun     |-> hist.begun + (IF txn.begun THEN 1 ELSE 0),
                commits   |-> hist.commits + txn.commits,
                rollbacks |-> hist.rollbacks + txn.rollbacks]
    /\ txn' = None
    /\ TxUnchanged

NextTx ==
    \/ BeginTxx \/ CallbackReturns \/ CallbackPanics \/ Rollback \/ Commit \/ Leave

SpecTx == InitTx /\ [][NextTx]_vars

(***************************************************************************)
(* SelectStmt alone (SpecSelect): the constructor with and without         *)
(* columns, every clause method once per call, Limit and Offset also with  *)
(* zero, ToSQL and GetCount.                                               *)
(***************************************************************************)
MaxClauses == 4   \* constructor and builder calls made on one SELECT

SelectArgs == {<<"id">>, <<>>}
DistinctArgs == {<<"alpha">>, <<>>}
LockArgs == {NoWait(ForUpdate), ForShare}

\* a builder call on the SELECT
Adding == st # None /\ calls < MaxClauses

SelSelect == \E cols \in SelectArgs : (Constructing /\ st' = Select(cols) /\ Constructed)
SelFrom == Adding /\ st' = From(st, "t") /\ Built
SelDistinct == \E cols \in DistinctArgs : (Adding /\ st' = Distinct(st, cols) /\ Built)
SelJoin == \E conds \in JoinArgs : (Adding /\ st' = LeftJoinOn(st, "j", conds) /\ Built)
SelJoinRS ==
    \E conds \in JoinRSArgs : (Adding /\ st' = JoinOn(st, InnerJoin, "x", SubSelect, conds) /\ Built)
SelWhere == Adding /\ st' = Where(st, <<Eq("alpha", IntV(1))>>) /\ Built
SelGroupBy == Adding /\ st' = GroupBy(st, <<"alpha">>) /\ Built
SelHaving == \E conds \in HavingArgs : (Adding /\ st' = Having(st, conds) /\ Built)
SelOrderBy == Adding /\ st' = OrderBy(st, <<Desc("alpha")>>) /\ Built
SelWithNulls == Adding /\ st' = WithNullsLast(st) /\ Built
SelLimit ==
    \E limit \in LimitArgs : (Adding /\ st' = Limit(st, limit) /\ BuiltWith("Limit", limit))
SelOffset ==
    \E start \in OffsetArgs :
        (Adding /\ st' = Offset(st, start, <<>>) /\ BuiltWith("Offset", start))
SelLock == \E lock \in LockArgs : (Adding /\ st' = Lock(st, lock) /\ Built)
SelUnion == Adding /\ st' = Union(st, <<UnionSelect>>) /\ Built
SelUnionAll == Adding /\ st' = UnionAll(st, <<UnionSelect>>) /\ Built

\* stmt.GetCount() / GetCountContext(ctx) after a ToSQL: countStmt is a copy
\* of *stmt with five fields overwritten, countStmt.GetRow renders it with
\* ToSQL(true) and hands the text to the executor; *stmt is not written
GetCount ==
    /\ st.k = "select"
    /\ out # None
    /\ prev = None
    /\ last' = [op |-> "GetCount", before |-> st, stmt |-> CountStmt(st),
                ran |-> Render(CountStmt(st), TRUE, [bt |-> bindType, ord |-> <<>>])]
    /\ UNCHANGED <<bindType, st, calls, out, prev, cond, parsed, txn, hist, jb, ex, rd, cf>>

NextSelect ==
    \/ SelSelect \/ SelFrom \/ SelDistinct \/ SelJoin \/ SelJoinRS \/ SelWhere
    \/ SelGroupBy \/ SelHaving \/ SelOrderBy \/ SelWithNulls \/ SelLimit
    \/ SelOffset \/ SelLock \/ SelUnion \/ SelUnionAll
    \/ GetCount
    \/ ToSQL

\* a database whose driver binds with $n
InitSelect == Init /\ bindType = "DOLLAR"

SpecSelect == InitSelect /\ [][NextSelect]_vars

(***************************************************************************)
(* Error handlers (SpecExec): New or Newx makes the handle, a constructor  *)
(* hands the handle's handlers to the statement, and the executing methods *)
(* run the statement on the executor and report its error.                 *)
(***************************************************************************)
MaxHandlers == 2   \* handlers passed to New
MaxExecs == 2      \* executing calls on one statement

HandlerNames == {"log", "metric"}
ExecErrors == {Error("sql: no rows in result set"), Error("sql: connection is already closed")}

\* a []func(err error): nil, or the functions it holds
NilSlice == [isNil |-> TRUE, fns |-> <<>>]
Slice(fns) == [isNil |-> FALSE, fns |-> fns]

RECURSIVE HandlerLists(_)
HandlerLists(n) ==
    IF n = 0 THEN {<<>>}
    ELSE HandlerLists(n - 1)
             \cup {Append(hs, h) : hs \in {l \in HandlerLists(n - 1) : Len(l) = n - 1},
                                   h \in HandlerNames}

\* a variant that tells the handlers of errors only, not of a nil error
HandleError_SkipsNil(ErrHandlers, err) ==
    IF ErrHandlers.isNil \/ err = NoError THEN <<>>
    ELSE [i \in 1..Len(ErrHandlers.fns) |-> [handler |-> ErrHandlers.fns[i], err |-> err]]

\* Statment.HandlerError / Statement.HandleError: the handler calls it makes
HandleError(ErrHandlers, err) ==
    IF ErrHandlers.isNil THEN <<>>
    ELSE [i \in 1..Len(ErrHandlers.fns) |-> [handler |-> ErrHandlers.fns[i], err |-> err]]

InitExec ==
    /\ bindType \in BindTypes
    /\ st = None
    /\ calls = 0
    /\ out = None
    /\ prev = None
    /\ cond = None
    /\ parsed = None
    /\ txn = None
    /\ hist = NoCalls
    /\ last = None
    /\ jb = None
    /\ ex = [db |-> None, registered |-> <<>>, stmt |-> None, n |-> 0, call |-> None]
    /\ rd = None
    /\ cf = None

ExecUnchanged ==
    UNCHANGED <<bindType, st, calls, out, prev, cond, parsed, txn, hist, last, jb, rd, cf>>

\* New(db, driverName, errHandlerFuncs...)
ExecNew ==
    /\ ex.db = None
    /\ \E hs \in HandlerLists(MaxHandlers) :
          ex' = [ex EXCEPT !.db = [ErrHandlers |-> Slice(hs)], !.registered = hs]
    /\ ExecUnchanged

\* Newx(db)
ExecNewx ==
    /\ ex.db = None
    /\ ex' = [ex EXCEPT !.db = [ErrHandlers |-> NilSlice], !.registered = <<>>]
    /\ ExecUnchanged

\* db.Select / tx.Select, db.InsertInto / tx.InsertInto, db.Set / tx.Set: the
\* statement takes the handle's ErrHandlers (a Tx has its DB's)
Constructs(kind) ==
    /\ ex.db # None
    /\ ex.stmt = None
    /\ ex' = [ex EXCEPT !.stmt = [k |-> kind, ErrHandlers |-> ex.db.ErrHandlers]]
    /\ ExecUnchanged

ExecSelect == Constructs("select")
ExecInsertInto == Constructs("insert")
ExecSet == Constructs("set")

\* an executing method of the shape
\*     err := <executor>(asSQL, bindings...); stmt.HandlerError(err); return err
Reports(method, kind) ==
    /\ ex.stmt # None
    /\ ex.stmt.k = kind
    /\ ex.n < MaxExecs
    /\ \E err \in ExecErrors \cup {NoError} :
          ex' = [ex EXCEPT !.n = @ + 1,
                           !.call = [method |-> method, produced |-> err,
                                     invoked |-> HandleError(ex.stmt.ErrHandlers, err),
                                     returned |-> err]]
    /\ ExecUnchanged

GetRow == Reports("GetRow", "select")
GetRowContext == Reports("GetRowContext", "select")
GetAll == Reports("GetAll", "select")
GetAllContext == Reports("GetAllContext", "select")
GetRowAsMap == Reports("GetRowAsMap", "select")
GetAllAsRows == Reports("GetAllAsRows", "select")
GetAllAsRowsContext == Reports("GetAllAsRowsContext", "select")
InsertExec == Reports("Exec", "insert")
InsertExecContext == Reports("ExecContext", "insert")
SetCmdExec == Reports("Exec", "set")

\* GetAllAsMaps: the error is that of Queryx, else that of the first MapScan
\* that fails, else that of rows.Err(); the deferred function reports the
\* value err has when the method returns
GetAllAsMaps ==
    /\ ex.stmt # None
    /\ ex.stmt.k = "select"
    /\ ex.n < MaxExecs
    /\ \E queryErr \in ExecErrors \cup {NoError}, scanErr \in ExecErrors \cup {NoError},
          rowsErr \in ExecErrors \cup {NoError} :
          ex' = [ex EXCEPT
                    !.n = @ + 1,
                    !.call =
                        [method |-> "GetAllAsMaps",
                         produced |-> IF queryErr # NoError THEN queryErr
                                      ELSE IF scanErr # NoError THEN scanErr
                                      ELSE rowsErr,
                         invoked |-> HandleError(ex.stmt.ErrHandlers,
                                         IF queryErr # NoError THEN queryErr
                                         ELSE IF scanErr # NoError THEN scanErr
                                         ELSE IF rowsErr # NoError THEN rowsErr
                                         ELSE NoError),
                         returned |-> IF queryErr # NoError THEN queryErr
                                      ELSE IF scanErr # NoError THEN scanErr
                                      ELSE IF rowsErr # NoError THEN rowsErr
                                      ELSE NoError]]
    /\ ExecUnchanged

NextExec ==
    \/ ExecNew \/ ExecNewx
    \/ ExecSelect \/ ExecInsertInto \/ ExecSet
    \/ GetRow \/ GetRowContext \/ GetAll \/ GetAllContext \/ GetAllAsMaps
    \/ GetRowAsMap \/ GetAllAsRows \/ GetAllAsRowsContext
    \/ InsertExec \/ InsertExecContext \/ SetCmdExec

SpecExec == InitExec /\ [][NextExec]_vars

(***************************************************************************)
(* Concurrent renders (SpecReaders): a statement nobody mutates any more,  *)
(* one render made alone, then ToSQL calls of several goroutines.  ToSQL   *)
(* reads the statement's fields and assigns to its own locals only, so a   *)
(* call is a read that begins (the range over a map picks its order) and a *)
(* return.                                                                 *)
(***************************************************************************)
MaxReaders == 2   \* goroutines calling ToSQL

Readers == 1..MaxReaders

FinishedStmts ==
    MainStmts
        \cup {SubSelect, UpdateSetMap(Update("t"), CHOOSE u \in SetMapArgs : TRUE)}
        \cup {Then(With(SubSelect, "aux"), main) : main \in MainStmts}

Idle == [pc |-> "idle", ord |-> <<>>, res |-> None]

InitReaders ==
    /\ bindType \in BindTypes
    /\ st = None
    /\ calls = 0
    /\ out = None
    /\ prev = None
    /\ cond = None
    /\ parsed = None
    /\ txn = None
    /\ hist = NoCalls
    /\ last = None
    /\ jb = None
    /\ ex = None
    /\ \E stmt \in FinishedStmts, rebind \in BOOLEAN :
          rd = [stmt |-> stmt, given |-> stmt, rebind |-> rebind, alone |-> None,
                reader |-> [r \in Readers |-> Idle]]
    /\ cf = None

ReadersUnchanged ==
    UNCHANGED <<bindType, st, calls, out, prev, cond, parsed, txn, hist, last, jb, ex, cf>>

\* stmt.ToSQL(rebind) called while no other call runs
RenderAlone ==
    /\ rd.alone = None
    /\ \E ord \in Orders(rd.stmt) :
          rd' = [rd EXCEPT !.alone = Render(rd.stmt, rd.rebind, [bt |-> bindType, ord |-> ord])]
    /\ ReadersUnchanged

\* a goroutine enters stmt.ToSQL(rebind)
BeginToSQL ==
    /\ rd.alone # None
    /\ \E r \in Readers, ord \in Orders(rd.stmt) :
          /\ rd.reader[r].pc = "idle"
          /\ rd' = [rd EXCEPT !.reader[r] = [pc |-> "rendering", ord |-> ord, res |-> None]]
    /\ ReadersUnchanged

\* its ToSQL returns
ReturnToSQL ==
    /\ \E r \in Readers :
          /\ rd.reader[r].pc = "rendering"
          /\ rd' = [rd EXCEPT !.reader[r] =
                        [pc |-> "done", ord |-> @.ord,
                         res |-> Render(rd.stmt, rd.rebind,
                                        [bt |-> bindType, ord |-> rd.reader[r].ord])]]
    /\ ReadersUnchanged

NextReaders == RenderAlone \/ BeginToSQL \/ ReturnToSQL

SpecReaders == InitReaders /\ [][NextReaders]_vars

(***************************************************************************)
(* parseConditions on a list of conditions (SpecWhere): the caller appends *)
(* conditions to a list, as Where and Having do, and the list is parsed.   *)
(* cond holds the list and parsed what parseConditions returned for it.    *)
(***************************************************************************)
MaxConds == 3   \* conditions in one list

\* SQLCond("(a) OR (b)")
RawAlternatives ==
    SQLCond(<<Txt("("), Txt("a"), Txt(")"), Txt("OR"), Txt("("), Txt("b"), Txt(")")>>, <<>>)

WhereConditions ==
    {Eq("id", IntV(1)),
     In("beta", <<IntV(2), IntV(3)>>),
     And(<<Eq("name", StrV("some-name")), Gt("integer", IntV(3))>>),
     Or(<<Eq("id", IntV(1)), And(<<Eq("name", StrV("some-name")), Gt("integer", IntV(3))>>)>>),
     Not(Eq("gamma", IntV(4))),
     RawAlternatives}

InitWhere ==
    /\ bindType \in BindTypes
    /\ st = None
    /\ calls = 0
    /\ out = None
    /\ prev = None
    /\ cond = [conds |-> <<>>]
    /\ parsed = None
    /\ txn = None
    /\ hist = NoCalls
    /\ last = None
    /\ jb = None
    /\ ex = None
    /\ rd = None
    /\ cf = None

WhereUnchanged == UNCHANGED <<bindType, st, calls, out, prev, txn, hist, last, jb, ex, rd, cf>>

\* conds = append(conds, c)
AppendCondition ==
    /\ Len(cond.conds) < MaxConds
    /\ \E c \in WhereConditions : cond' = [conds |-> Append(cond.conds, c)]
    /\ parsed' = None
    /\ WhereUnchanged

\* parseConditions(conds)
ParseConditions ==
    /\ parsed = None
    /\ parsed' = parseConditions(cond.conds, [bt |-> bindType, ord |-> <<>>])
    /\ UNCHANGED cond
    /\ WhereUnchanged

NextWhere == AppendCondition \/ ParseConditions

SpecWhere == InitWhere /\ [][NextWhere]_vars

(***************************************************************************)
(* A SELECT put together from others (SpecUnion): joins, with and without  *)
(* conditions, WHERE and HAVING calls, with and without conditions, Union  *)
(* and UnionAll.  last.log lists the Union and UnionAll calls made.        *)
(***************************************************************************)
MaxParts == 4   \* constructor and builder calls made on the SELECT

OtherSelect == Where(From(Select(<<"id">>), "v"), <<Eq("kind", IntV(6))>>)

NoConditionsOr(args) == {<<>>} \cup args
UnionArgs == {<<UnionSelect>>, <<SubSelect, OtherSelect>>}
UnionAllArgs == {<<OtherSelect>>}

InitUnion ==
    /\ bindType \in BindTypes
    /\ st = None
    /\ calls = 0
    /\ out = None
    /\ prev = None
    /\ cond = None
    /\ parsed = None
    /\ txn = None
    /\ hist = NoCalls
    /\ last = [log |-> <<>>]
    /\ jb = None
    /\ ex = None
    /\ rd = None
    /\ cf = None

\* a builder call on the SELECT
Joining == st # None /\ calls < MaxParts

UnSelect == Constructing /\ st' = From(Select(<<"id">>), "t") /\ Constructed
UnJoin ==
    \E conds \in NoConditionsOr(JoinArgs) :
        (Joining /\ st' = LeftJoinOn(st, "j", conds) /\ Returned /\ UNCHANGED last)
UnWhere ==
    \E conds \in NoConditionsOr({<<Eq("alpha", IntV(1))>>}) :
        (Joining /\ st' = Where(st, conds) /\ Returned /\ UNCHANGED last)
UnHaving ==
    \E conds \in NoConditionsOr(HavingArgs) :
        (Joining /\ st' = Having(st, conds) /\ Returned /\ UNCHANGED last)
UnUnion ==
    \E statements \in UnionArgs :
        /\ Joining
        /\ st' = Union(st, statements)
        /\ Returned
        /\ last' = [log |-> Append(last.log, [op |-> "Union", arg |-> statements])]
UnUnionAll ==
    \E statements \in UnionAllArgs :
        /\ Joining
        /\ st' = UnionAll(st, statements)
        /\ Returned
        /\ last' = [log |-> Append(last.log, [op |-> "UnionAll", arg |-> statements])]

NextUnion == UnSelect \/ UnJoin \/ UnWhere \/ UnHaving \/ UnUnion \/ UnUnionAll \/ ToSQL

SpecUnion == InitUnion /\ [][NextUnion]_vars

(***************************************************************************)
(* The builder methods of a SELECT called repeatedly (SpecBuilders), with  *)
(* no render in between.  last.log lists the calls made with their         *)
(* arguments.                                                              *)
(***************************************************************************)
MaxBuilds == 3   \* builder calls made on the SELECT

TableArgs == {"t", "u"}
RepeatLimitArgs == {10, 5}
RepeatOffsetArgs == {<<20, <<>>>>, <<30, <<7>>>>}
RepeatWhereArgs == {<<Eq("alpha", IntV(1))>>, <<Eq("beta", IntV(2)), IsNull("gamma")>>}
RepeatHavingArgs == {<<Gt("COUNT(*)", IntV(5))>>, <<Lt("SUM(x)", IntV(9))>>}
ColumnArgs == {<<"alpha">>, <<"beta", "gamma">>}
RepeatOrderArgs == {<<Desc("alpha")>>, <<OrderColumn("beta", FALSE)>>}
JoinTables == {"j", "x"}

InitBuilders ==
    /\ bindType \in BindTypes
    /\ st = Select(<<"id">>)
    /\ calls = 0
    /\ out = None
    /\ prev = None
    /\ cond = None
    /\ parsed = None
    /\ txn = None
    /\ hist = NoCalls
    /\ last = [log |-> <<>>]
    /\ jb = None
    /\ ex = None
    /\ rd = None
    /\ cf = None

Repeating == calls < MaxBuilds

\* the call returns and is added to the log
Logged(op, arg) ==
    /\ Returned
    /\ last' = [log |-> Append(last.log, [op |-> op, arg |-> arg])]

BdFrom == \E table \in TableArgs : (Repeating /\ st' = From(st, table) /\ Logged("From", table))
BdDistinct ==
    \E cols \in ColumnArgs : (Repeating /\ st' = Distinct(st, cols) /\ Logged("Distinct", cols))
BdLimit ==
    \E limit \in RepeatLimitArgs :
        (Repeating /\ st' = Limit(st, limit) /\ Logged("Limit", limit))
BdOffset ==
    \E args \in RepeatOffsetArgs :
        (Repeating /\ st' = Offset(st, args[1], args[2]) /\ Logged("Offset", args))
BdWhere ==
    \E conds \in RepeatWhereArgs :
        (Repeating /\ st' = Where(st, conds) /\ Logged("Where", conds))
BdHaving ==
    \E conds \in RepeatHavingArgs :
        (Repeating /\ st' = Having(st, conds) /\ Logged("Having", conds))
BdGroupBy ==
    \E cols \in ColumnArgs : (Repeating /\ st' = GroupBy(st, cols) /\ Logged("GroupBy", cols))
BdOrderBy ==
    \E cols \in RepeatOrderArgs :
        (Repeating /\ st' = OrderBy(st, cols) /\ Logged("OrderBy", cols))
BdJoin ==
    \E table \in JoinTables, conds \in JoinArgs :
        /\ Repeating
        /\ st' = LeftJoinOn(st, table, conds)
        /\ Logged("Join", <<[Type |-> LeftJoin, Table |-> table,
                             ResultSet |-> None, Conditions |-> conds]>>)
BdLock == \E lock \in LockArgs : (Repeating /\ st' = Lock(st, lock) /\ Logged("Lock", <<lock>>))
BdUnion ==
    \E statements \in UnionArgs :
        (Repeating /\ st' = Union(st, statements) /\ Logged("Union", statements))
BdUnionAll ==
    \E statements \in UnionAllArgs :
        (Repeating /\ st' = UnionAll(st, statements) /\ Logged("Union", statements))

NextBuilders ==
    \/ BdFrom \/ BdDistinct \/ BdLimit \/ BdOffset \/ BdWhere \/ BdHaving
    \/ BdGroupBy \/ BdOrderBy \/ BdJoin \/ BdLock \/ BdUnion \/ BdUnionAll

SpecBuilders == InitBuilders /\ [][NextBuilders]_vars

(***************************************************************************)
(* JSONBBuilder as a state machine (SpecJSONB): a Go value is built from   *)
(* the inside out (a map or a list whose elements are plain values or the  *)
(* value built so far), then handed to BuildJSONBObject / BuildJSONBArray  *)
(* and parsed.                                                             *)
(***************************************************************************)
MaxNest == 2      \* maps and lists built on top of one another

JSONKeys == {"alpha", "beta"}
JSONLeaves == {IntV(3), StrV("s")}

InitJSONB ==
    /\ bindType \in BindTypes
    /\ st = None
    /\ calls = 0
    /\ out = None
    /\ prev = None
    /\ cond = None
    /\ parsed = None
    /\ txn = None
    /\ hist = NoCalls
    /\ last = None
    /\ jb = [val |-> None, nest |-> 0, res |-> None]
    /\ ex = None
    /\ rd = None
    /\ cf = None

JSONBUnchanged ==
    UNCHANGED <<bindType, st, calls, out, prev, cond, parsed, txn, hist, last, ex, rd, cf>>

\* the values an element of a new map or list may be
JSONElements == JSONLeaves \cup (IF jb.val = None THEN {} ELSE {jb.val})

\* map[string]interface{}{...}
NewMap ==
    /\ jb.nest < MaxNest
    /\ \E keys \in SUBSET JSONKeys :
          \E m \in [keys -> JSONElements] :
              jb' = [val |-> MapV(m), nest |-> jb.nest + 1, res |-> None]
    /\ JSONBUnchanged

\* []interface{}{...}
NewList ==
    /\ jb.nest < MaxNest
    /\ \E e \in {<<a>> : a \in JSONElements}
                  \cup {<<a, b>> : a \in JSONElements, b \in JSONElements} :
          jb' = [val |-> ListV(e), nest |-> jb.nest + 1, res |-> None]
    /\ JSONBUnchanged

\* BuildJSONBObject(m).Parse()
ParseObject ==
    /\ jb.val # None
    /\ jb.val.k = "map"
    /\ jb.res = None
    /\ jb' = [jb EXCEPT !.res = JSONBBuilderParse(BuildJSONBObject(jb.val.m))]
    /\ JSONBUnchanged

\* BuildJSONBArray(e...).Parse()
ParseArray ==
    /\ jb.val # None
    /\ jb.val.k = "list"
    /\ jb.res = None
    /\ jb' = [jb EXCEPT !.res = JSONBBuilderParse(BuildJSONBArray(jb.val.e))]
    /\ JSONBUnchanged

NextJSONB == NewMap \/ NewList \/ ParseObject \/ ParseArray

SpecJSONB == InitJSONB /\ [][NextJSONB]_vars

(***************************************************************************)
(* ConflictClause as a state machine (SpecConflict): OnConflict, then any  *)
(* of DoNothing, DoUpdate, Set, SetIf and SetMap, and ToSQL.  cf.log is    *)
(* the list of the Set / SetIf / SetMap calls made, each with the action   *)
(* the clause had when the call was made.                                  *)
(***************************************************************************)
MaxSets == 3      \* method calls made on one ConflictClause

ConflictTargets == {<<>>, <<"name">>}

InitConflict ==
    /\ bindType \in BindTypes
    /\ st = None
    /\ calls = 0
    /\ out = None
    /\ prev = None
    /\ cond = None
    /\ parsed = None
    /\ txn = None
    /\ hist = NoCalls
    /\ last = None
    /\ jb = None
    /\ ex = None
    /\ rd = None
    /\ cf = None

ConflictUnchanged ==
    UNCHANGED <<bindType, st, calls, out, prev, cond, parsed, txn, hist, last, jb, ex, rd>>

\* a method call on the clause
ConflictCalling == cf # None /\ cf.n < MaxSets

\* a Set / SetIf call as the log keeps it
Asked(col, val, b) ==
    [call |-> "SetIf", col |-> col, val |-> val, b |-> b, action |-> cf.clause.Action]

\* a SetMap call as the log keeps it
AskedMap(vals) == [call |-> "SetMap", vals |-> vals, action |-> cf.clause.Action]

CfOnConflict ==
    /\ cf = None
    /\ \E targets \in ConflictTargets :
          cf' = [clause |-> OnConflict(targets), log |-> <<>>, n |-> 0, res |-> None]
    /\ ConflictUnchanged

CfDoNothing ==
    /\ ConflictCalling
    /\ cf' = [cf EXCEPT !.clause = DoNothing(@), !.n = @ + 1, !.res = None]
    /\ ConflictUnchanged

CfDoUpdate ==
    /\ ConflictCalling
    /\ cf' = [cf EXCEPT !.clause = DoUpdate(@), !.n = @ + 1, !.res = None]
    /\ ConflictUnchanged

CfSet ==
    /\ ConflictCalling
    /\ \E col \in DOMAIN SetValue :
          cf' = [cf EXCEPT !.clause = ConflictSet(@, col, SetValue[col]),
                           !.log = Append(@, Asked(col, SetValue[col], TRUE)),
                           !.n = @ + 1, !.res = None]
    /\ ConflictUnchanged

CfSetIf ==
    /\ ConflictCalling
    /\ \E b \in BOOLEAN :
          cf' = [cf EXCEPT !.clause = ConflictSetIf(@, "beta", IntV(2), b),
                           !.log = Append(@, Asked("beta", IntV(2), b)),
                           !.n = @ + 1, !.res = None]
    /\ ConflictUnchanged

CfSetMap ==
    /\ ConflictCalling
    /\ \E vals \in SetMapArgs :
          cf' = [cf EXCEPT !.clause = ConflictSetMap(@, vals),
                           !.log = Append(@, AskedMap(vals)),
                           !.n = @ + 1, !.res = None]
    /\ ConflictUnchanged

CfToSQL ==
    /\ cf # None
    /\ cf.res = None
    /\ cf' = [cf EXCEPT !.res = ConflictClauseToSQL(cf.clause)]
    /\ ConflictUnchanged

NextConflict ==
    CfOnConflict \/ CfDoNothing \/ CfDoUpdate \/ CfSet \/ CfSetIf \/ CfSetMap \/ CfToSQL

SpecConflict == InitConflict /\ [][NextConflict]_vars

(***************************************************************************)
(* Properties.                                                             *)
(***************************************************************************)
StatementKinds == {"select", "insert", "update", "delete", "with"}

\* the last ToSQL of a statement of the given kind returned normally
Rendered(kind) == out # None /\ ~out.panic /\ st.k = kind

\* the context of the render that produced out
OutCtx == [bt |-> bindType, ord |-> out.ord]

\* the values of the placeholders of a text, rebound ($n) or not ('?')
RECURSIVE MarkerValues(_)
MarkerValues(sql) ==
    IF sql = <<>> THEN <<>>
    ELSE (IF Head(sql).t \in {"ph", "dollar"} THEN <<Head(sql).v>> ELSE <<>>)
         \o MarkerValues(Tail(sql))

RECURSIVE IsSubsequence(_, _)
IsSubsequence(a, b) ==
    IF a = <<>> THEN TRUE
    ELSE IF b = <<>> THEN FALSE
    ELSE IF Head(a) = Head(b) THEN IsSubsequence(Tail(a), Tail(b))
    ELSE IsSubsequence(a, Tail(b))

CountToken(sql, tok) == Cardinality({i \in 1..Len(sql) : sql[i] = tok})

\* C1 (as stated): for a SELECT, INSERT, UPDATE, DELETE or WITH statement,
\* the bindings returned by ToSQL(false) are exactly the values of the '?'
\* placeholders of the returned SQL, from left to right.
C1_BindingsMatchPlaceholders ==
    (out # None /\ ~out.panic /\ ~out.rebind /\ st.k \in StatementKinds)
        => PlaceholderValues(out.sql) = out.bindings

\* C2 (as stated): the bindings returned by Parse() of a condition built with
\* the package constructors are exactly the values of the '?' placeholders of
\* the returned SQL, from left to right.
C2_ParseBindingsMatchPlaceholders ==
    parsed # None => PlaceholderValues(parsed.sql) = parsed.bindings

\* the bindings a join is to contribute: its sub-select's, then its ON conditions'
ExpectedJoinBindings(join, ctx) ==
    (IF join.ResultSet # None
     THEN SelectStmtToSQL(join.ResultSet, FALSE, ctx).bindings ELSE <<>>)
        \o parseConditions(join.Conditions, ctx).bindings

\* C3: the bindings of a rendered SELECT are, in this order, those of its
\* joins in registration order (for each join the sub-select's before the ON
\* conditions'), of WHERE, of HAVING and of the UNION-ed statements, and
\* they follow the order of their placeholders in the text.
C3_SelectBindingOrder ==
    Rendered("select") =>
        LET ctx == OutCtx
            joinB == Concat([i \in 1..Len(st.Joins) |->
                                ExpectedJoinBindings(st.Joins[i], ctx)])
            whereB == parseConditions(st.Conditions, ctx).bindings
            havingB == parseConditions(st.GroupConditions, ctx).bindings
            unionB == Concat([i \in 1..Len(st.Unions) |->
                                SelectStmtToSQL(st.Unions[i], FALSE, ctx).bindings])
        IN  /\ out.bindings = joinB \o whereB \o havingB \o unionB
            /\ IsSubsequence(out.bindings, MarkerValues(out.sql))

\* C3 witness: a rendered SELECT with a join on a sub-select that has bindings
\* of its own and in its ON condition, and with WHERE and HAVING bindings
C3_Witness ==
    /\ Rendered("select")
    /\ \E i \in 1..Len(st.Joins) :
          /\ st.Joins[i].ResultSet # None
          /\ SelectStmtToSQL(st.Joins[i].ResultSet, FALSE, OutCtx).bindings # <<>>
          /\ parseConditions(st.Joins[i].Conditions, OutCtx).bindings # <<>>
    /\ parseConditions(st.Conditions, OutCtx).bindings # <<>>
    /\ parseConditions(st.GroupConditions, OutCtx).bindings # <<>>

\* C4 (as stated): a rendered UPDATE lists its SET assignments, and their
\* bindings, in ascending order of column name.
C4_SetListAscending ==
    Rendered("update") =>
        LET sorted == UpdateStmtToSQL(st, out.rebind,
                                      [bt |-> bindType, ord |-> ColumnNames])
        IN  out.sql = sorted.sql /\ out.bindings = sorted.bindings

\* C5 (as stated): two ToSQL calls on a statement with no builder call in
\* between return the same SQL and the same bindings.
C5_RenderIdempotent ==
    (prev # None /\ out # None) =>
        (prev.sql = out.sql /\ prev.bindings = out.bindings)

\* C6 (as stated): when control leaves a TransactionalContext call that began a
\* transaction, exactly one of Commit and Rollback was called on it: Commit
\* (and a nil result when it succeeds) after the callback returned nil,
\* Rollback (and the callback's error as the result) after it returned an
\* error, and Rollback after it panicked.
C6_ExactlyOneOfCommitRollback ==
    (txn # None /\ txn.begun /\ txn.pc \in {"returned", "panicked"}) =>
        /\ txn.commits + txn.rollbacks = 1
        /\ (txn.pc = "returned" /\ txn.cbErr = NoError) =>
               (txn.commits = 1 /\ (txn.cmErr = NoError => txn.ret = NoError))
        /\ (txn.pc = "returned" /\ txn.cbErr # NoError) =>
               (txn.rollbacks = 1 /\ txn.ret = txn.cbErr)
        /\ txn.pc = "panicked" => txn.rollbacks = 1

\* a call has returned after the callback failed and Rollback failed too
RollbackFailed ==
    /\ txn # None
    /\ txn.pc = "returned"
    /\ txn.cbErr # NoError
    /\ txn.rbErr # NoError

\* C7 (as stated): when the callback fails and Rollback fails too, the error
\* returned to the caller carries both the callback's error and the
\* rollback's error.
C7_RollbackFailureReported ==
    RollbackFailed => (ErrorIs(txn.ret, txn.cbErr) /\ ErrorIs(txn.ret, txn.rbErr))

\* C7 (amended): when the callback fails, Rollback is called once, Commit is
\* not called, and the call returns the callback's error unchanged whether or
\* not Rollback fails: a rollback failure is discarded.
C7_RollbackFailureDiscarded ==
    (txn # None /\ txn.pc = "returned" /\ txn.cbErr # NoError) =>
        /\ txn.rollbacks = 1
        /\ txn.commits = 0
        /\ txn.ret = txn.cbErr
        /\ (txn.rbErr # NoError => ~ErrorIs(txn.ret, txn.rbErr))

\* C7 witness: the callback failed, Rollback failed, and the call has returned
C7_Witness == RollbackFailed /\ txn.rollbacks = 1

\* a statement that lacks a required attribute
MissingRequired(s) ==
    \/ s.k \in {"select", "insert", "update", "delete"} /\ s.Table = ""
    \/ s.k = "update" /\ DOMAIN s.Updates = {}

\* C8 (as stated): rendering a statement without a table name, or an UPDATE
\* without SET assignments, yields an error and no SQL text.
C8_InvalidStatementError ==
    (out # None /\ MissingRequired(st)) => (out.err /\ out.sql = <<>>)

\* C9: a rendered WITH is WITH, the auxiliary statements as "alias AS (sql)"
\* in the order they were added, separated by commas, then the main
\* statement; its bindings are the auxiliary statements' in that order, then
\* the main statement's; no binding is an IndirectValue, and the main
\* statement binds one value per placeholder of its own.
C9_WithOrderAndBindings ==
    Rendered("with") =>
        LET ctx == OutCtx
            n == Len(st.AuxStmts)
            auxs == [i \in 1..n |-> SQLStmtToSQL(st.AuxStmts[i].Stmt, FALSE, ctx)]
            main == SQLStmtToSQL(st.MainStmt, FALSE, ctx)
        IN  /\ out.sql =
                  Rebind(bindType,
                         <<Txt("WITH")>>
                             \o Join([i \in 1..n |->
                                         <<Txt(st.AuxStmts[i].As), Txt("AS"), Txt("(")>>
                                             \o auxs[i].sql \o <<Txt(")")>>], Comma)
                             \o main.sql)
            /\ out.bindings = Concat([i \in 1..n |-> auxs[i].bindings]) \o main.bindings
            /\ \A i \in 1..Len(out.bindings) : out.bindings[i].k # "indirect"
            /\ Len(main.bindings) = CountPlaceholders(main.sql)

\* C9 witness: a rendered WITH of two auxiliary statements with bindings whose
\* main statement inserts an Indirect reference to an alias and a plain value
C9_Witness ==
    /\ Rendered("with")
    /\ Len(st.AuxStmts) = 2
    /\ st.MainStmt.k = "insert"
    /\ AuxId \in {st.MainStmt.InsVals[i] : i \in 1..Len(st.MainStmt.InsVals)}
    /\ Len(out.bindings) = 3

\* the rows an INSERT is to render: the select, else the Values row, else the
\* ValueMultiple rows
ExpectedRows(s, ctx) ==
    IF s.SelectStmt # None THEN SelectStmtToSQL(s.SelectStmt, FALSE, ctx)
    ELSE IF Len(s.InsVals) > 0
    THEN LET row == ValuesRowToSQL(s.InsVals)
         IN  Result(<<Txt("VALUES")>> \o row.sql, row.bindings)
    ELSE IF Len(s.InsMultipleVals) > 0
    THEN LET rows == [i \in 1..Len(s.InsMultipleVals) |->
                         ValuesRowToSQL(s.InsMultipleVals[i])]
         IN  Result(<<Txt("VALUES")>> \o Join([i \in 1..Len(rows) |-> rows[i].sql], Comma),
                    Concat([i \in 1..Len(rows) |-> rows[i].bindings]))
    ELSE Result(<<>>, <<>>)

\* C10: a rendered INSERT has exactly one row source - the FromSelect
\* statement when one is set (then there is no VALUES and no binding of a
\* literal row), otherwise the Values row, otherwise the ValueMultiple rows in
\* row order - between its column list and its conflict clauses.
C10_InsertRowSourcePrecedence ==
    Rendered("insert") =>
        LET ctx == OutCtx
            rows == ExpectedRows(st, ctx)
            conflicts == [i \in 1..Len(st.Conflicts) |-> ConflictClauseToSQL(st.Conflicts[i])]
            head == <<Txt(IF st.sqliteConflict # ""
                          THEN "INSERT OR " \o st.sqliteConflict ELSE "INSERT"),
                      Txt("INTO"), Txt(st.Table)>>
                        \o (IF Len(st.InsCols) > 0
                            THEN <<Txt("(")>> \o Names(st.InsCols) \o <<Txt(")")>>
                            ELSE <<>>)
        IN  /\ out.sql = RebindIf(out.rebind, ctx,
                              head \o rows.sql
                                  \o Concat([i \in 1..Len(conflicts) |-> conflicts[i].sql])
                                  \o ReturningToSQL(st.Return))
            /\ out.bindings =
                  rows.bindings \o Concat([i \in 1..Len(conflicts) |-> conflicts[i].bindings])
            /\ CountToken(out.sql, Txt("VALUES")) =
                  (IF st.SelectStmt = None
                      /\ Len(st.InsVals) + Len(st.InsMultipleVals) > 0 THEN 1 ELSE 0)

\* C10 witness: a rendered INSERT that has both a FromSelect statement and a
\* Values row
C10_Witness ==
    /\ Rendered("insert")
    /\ st.SelectStmt # None
    /\ Len(st.InsVals) > 0

(***************************************************************************)
(* The VALUES list of an INSERT.                                           *)
(***************************************************************************)
\* a rendered text with its $n markers turned back into '?' characters
Unrebind(sql) ==
    [i \in 1..Len(sql) |-> IF sql[i].t = "dollar" THEN QMark(sql[i].v) ELSE sql[i]]

\* a occurs in b as a contiguous run of tokens
IsInfix(a, b) ==
    \E i \in 0..(Len(b) - Len(a)) : SubSeq(b, i + 1, i + Len(a)) = a

\* the position of a column name in the ascending order of names
ColumnIndex(c) == CHOOSE i \in 1..Len(ColumnNames) : ColumnNames[i] = c

\* what one value of a VALUES list has to render as, by its kind
ExpectedValue(val) ==
    CASE val.k = "indirect" -> Result(val.Reference, val.Bindings)
      [] val.k = "jsonb"    -> JSONBBuilderParse(val)
      [] OTHER              -> Result(<<QMark(val)>>, <<val>>)

\* C11: in the VALUES list of a rendered INSERT the k-th expression is the
\* k-th value given, rendered by kind (plain: '?' and the value; Indirect:
\* its reference and its bindings; JSONBBuilder: its function call and its
\* bindings), and the bindings follow in that order; a ValueMap call on a
\* statement whose columns and values are aligned appends its keys in
\* ascending order and, at the same positions, the values of those keys.
C11_ValuesPositional ==
    /\ (Rendered("insert") /\ st.SelectStmt = None /\ Len(st.InsVals) > 0) =>
          LET exprs == [k \in 1..Len(st.InsVals) |-> ExpectedValue(st.InsVals[k])]
              binds == Concat([k \in 1..Len(exprs) |-> exprs[k].bindings])
          IN  /\ IsInfix(<<Txt("VALUES"), Txt("(")>>
                             \o Join([k \in 1..Len(exprs) |-> exprs[k].sql], Comma)
                             \o <<Txt(")")>>,
                         Unrebind(out.sql))
              /\ Len(out.bindings) >= Len(binds)
              /\ SubSeq(out.bindings, 1, Len(binds)) = binds
    /\ (/\ last # None
        /\ last.op = "ValueMap"
        /\ Len(last.before.InsCols) = Len(last.before.InsVals)) =>
          LET n == Len(last.before.InsCols)
          IN  /\ Len(st.InsCols) = Len(st.InsVals)
              /\ SubSeq(st.InsCols, 1, n) = last.before.InsCols
              /\ SubSeq(st.InsVals, 1, n) = last.before.InsVals
              /\ \A j, k \in (n + 1)..Len(st.InsCols) :
                    j < k => ColumnIndex(st.InsCols[j]) < ColumnIndex(st.InsCols[k])
              /\ \E vals \in ValueMapArgs :
                    /\ {st.InsCols[k] : k \in (n + 1)..Len(st.InsCols)} = DOMAIN vals
                    /\ \A k \in (n + 1)..Len(st.InsCols) :
                          st.InsVals[k] = vals[st.InsCols[k]]

\* C11 witness: a rendered INSERT built by two ValueMap calls, with a plain
\* value, an IndirectValue and a JSONBBuilder among its values
C11_Witness ==
    /\ Rendered("insert")
    /\ st.SelectStmt = None
    /\ last # None
    /\ last.op = "ValueMap"
    /\ Len(last.before.InsVals) > 0
    /\ Len(last.before.InsCols) = Len(last.before.InsVals)
    /\ \E i, j, k \in 1..Len(st.InsVals) :
          /\ st.InsVals[i].k = "int"
          /\ st.InsVals[j].k = "indirect"
          /\ st.InsVals[k].k = "jsonb"

(***************************************************************************)
(* JSONB builders.                                                         *)
(***************************************************************************)
\* the elements of a set of column names as an ascending sequence
AscendingKeys(S) ==
    CHOOSE s \in Perms(S) :
        \A i, j \in 1..Len(s) : i < j => ColumnIndex(s[i]) < ColumnIndex(s[j])

\* what a Go value has to render as inside a JSONB builder: a map or list as
\* a nested call, traversed in pre-order; anything else as one bound '?'
RECURSIVE ExpectedJSONB(_)
ExpectedJSONB(val) ==
    CASE val.k = "map" ->
            LET keys == AscendingKeys(DOMAIN val.m)
                vals == [i \in 1..Len(keys) |-> ExpectedJSONB(val.m[keys[i]])]
                pairs == [i \in 1..Len(keys) |->
                            Result(<<QMark(StrV(keys[i])), Txt(",")>> \o vals[i].sql,
                                   <<StrV(keys[i])>> \o vals[i].bindings)]
            IN  Result(<<Txt("jsonb_build_object"), Txt("(")>>
                           \o Join([i \in 1..Len(pairs) |-> pairs[i].sql], Comma)
                           \o <<Txt(")")>>,
                       Concat([i \in 1..Len(pairs) |-> pairs[i].bindings]))
      [] val.k = "list" ->
            LET elems == [i \in 1..Len(val.e) |-> ExpectedJSONB(val.e[i])]
            IN  Result(<<Txt("jsonb_build_array"), Txt("(")>>
                           \o Join([i \in 1..Len(elems) |-> elems[i].sql], Comma)
                           \o <<Txt(")")>>,
                       Concat([i \in 1..Len(elems) |-> elems[i].bindings]))
      [] OTHER -> Result(<<QMark(val)>>, <<val>>)

ExpectedArgument(arg) ==
    IF arg.k = "indirect" THEN Result(arg.Reference, arg.Bindings)
    ELSE Result(<<QMark(arg)>>, <<arg>>)

\* what "col = value" has to render as, by the kind of the value
ExpectedAssignment(col, val) ==
    CASE val.k = "indirect" ->
            Result(<<Txt(col), Txt("=")>> \o val.Reference, val.Bindings)
      [] val.k = "fn" ->
            LET args == [i \in 1..Len(val.Arguments) |-> ExpectedArgument(val.Arguments[i])]
            IN  Result(<<Txt(col), Txt("="), Txt(val.Name), Txt("(")>>
                           \o Join([i \in 1..Len(args) |-> args[i].sql], Comma)
                           \o <<Txt(")")>>,
                       Concat([i \in 1..Len(args) |-> args[i].bindings]))
      [] OTHER -> Result(<<Txt(col), Txt("="), QMark(val)>>, <<val>>)

\* the assignments one logged call contributes: none unless the clause was
\* DO UPDATE when the call was made; a SetMap its entries in ascending order
AssignmentsOf(entry) ==
    IF entry.action # DoUpdateAction THEN <<>>
    ELSE IF entry.call = "SetMap"
    THEN LET keys == AscendingKeys(DOMAIN entry.vals)
         IN  [i \in 1..Len(keys) |-> ExpectedAssignment(keys[i], entry.vals[keys[i]])]
    ELSE IF entry.b THEN <<ExpectedAssignment(entry.col, entry.val)>>
    ELSE <<>>

ExpectedAssignments(log) == Concat([i \in 1..Len(log) |-> AssignmentsOf(log[i])])

ConflictHead(clause) ==
    <<Txt("ON CONFLICT")>>
        \o (IF Len(clause.Targets) > 0
            THEN <<Txt("(")>> \o Names(clause.Targets) \o <<Txt(")")>>
            ELSE <<>>)

\* C13: a DO UPDATE clause renders ON CONFLICT [(targets)] DO UPDATE SET and
\* then its assignments in the order of the Set / SetIf calls that recorded
\* them (a SetMap's entries in ascending key order at the place of the
\* SetMap call), each value rendered by kind, with the bindings in the same
\* order; a DO NOTHING clause renders ON CONFLICT [(targets)] DO NOTHING and
\* has no bindings.
C13_ConflictAssignmentsInCallOrder ==
    (cf # None /\ cf.res # None) =>
        /\ cf.clause.Action = DoUpdateAction =>
              LET want == ExpectedAssignments(cf.log)
              IN  /\ cf.res.sql =
                        ConflictHead(cf.clause) \o <<Txt("DO UPDATE SET")>>
                            \o Join([i \in 1..Len(want) |-> want[i].sql], Comma)
                  /\ cf.res.bindings = Concat([i \in 1..Len(want) |-> want[i].bindings])
        /\ cf.clause.Action = DoNothingAction =>
              /\ cf.res.sql = ConflictHead(cf.clause) \o <<Txt("DO NOTHING")>>
              /\ cf.res.bindings = <<>>

\* C13 witness: a rendered DO UPDATE clause with targets whose assignments
\* come from a Set call and a later SetMap call and are not in ascending
\* column order
C13_Witness ==
    /\ cf # None
    /\ cf.res # None
    /\ cf.clause.Action = DoUpdateAction
    /\ cf.clause.Targets # <<>>
    /\ Len(cf.log) = 2
    /\ cf.log[1].call = "SetIf"
    /\ cf.log[1].val.k \in {"indirect", "fn"}
    /\ cf.log[2].call = "SetMap"
    /\ Len(cf.clause.SetCols) = 3
    /\ ColumnIndex(cf.clause.SetCols[1]) > ColumnIndex(cf.clause.SetCols[2])

(***************************************************************************)
(* SELECT: GetCount, clause order, LIMIT and OFFSET.                       *)
(***************************************************************************)
\* the fields of a SELECT that GetCount overrides in the statement it runs
CountOverrides == {"Columns", "LimitTo", "OffsetFrom", "OffsetRows", "Ordering"}

\* the tokens of a text that are outside every pair of parentheses
RECURSIVE TopLevelFrom(_, _)
TopLevelFrom(sql, depth) ==
    IF sql = <<>> THEN <<>>
    ELSE IF Head(sql) = Txt("(") THEN TopLevelFrom(Tail(sql), depth + 1)
    ELSE IF Head(sql) = Txt(")") THEN TopLevelFrom(Tail(sql), depth - 1)
    ELSE (IF depth = 0 THEN <<Head(sql)>> ELSE <<>>) \o TopLevelFrom(Tail(sql), depth)

\* the top-level tokens of a SELECT's own clauses: those before its first UNION
RECURSIVE UntilUnion(_)
UntilUnion(sql) ==
    IF sql = <<>> \/ Head(sql) = Txt("UNION") THEN <<>>
    ELSE <<Head(sql)>> \o UntilUnion(Tail(sql))

OwnClauses(sql) == UntilUnion(TopLevelFrom(sql, 0))

\* C14: GetCount runs a statement equal to the receiver except that its
\* columns are the single expression COUNT(*), its limit and offset are zero
\* and its ordering is empty, so the text handed to the executor selects
\* COUNT(*) and has no ORDER BY, LIMIT or OFFSET clause of its own; the
\* receiver is unchanged by the call, and a ToSQL after the call returns what
\* the ToSQL before the call returned.
C14_GetCountLeavesReceiver ==
    (last # None /\ last.op = "GetCount") =>
        /\ st = last.before
        /\ last.stmt.Columns = <<"COUNT(*)">>
        /\ last.stmt.LimitTo = 0
        /\ last.stmt.OffsetFrom = 0
        /\ last.stmt.Ordering = <<>>
        /\ \A f \in (DOMAIN st) \ CountOverrides : last.stmt[f] = st[f]
        /\ LET own == OwnClauses(last.ran.sql)
           IN  /\ IsInfix(<<Txt("COUNT(*)"), Txt("FROM")>>, own)
               /\ \A kw \in {"ORDER BY", "LIMIT", "OFFSET"} : CountToken(own, Txt(kw)) = 0
               /\ CountToken(own, Txt("WHERE")) = (IF Len(st.Conditions) > 0 THEN 1 ELSE 0)
               /\ CountToken(own, Txt("HAVING")) = (IF Len(st.GroupConditions) > 0 THEN 1 ELSE 0)
               /\ CountToken(own, Txt("GROUP BY")) = (IF Len(st.Grouping) > 0 THEN 1 ELSE 0)
        /\ prev # None => out = prev

\* C14 witness: GetCount was called on a SELECT with a limit, an offset and
\* an ordering, and ToSQL was called before and after it
C14_Witness ==
    /\ last # None
    /\ last.op = "GetCount"
    /\ st.LimitTo > 0
    /\ st.OffsetFrom > 0
    /\ Len(st.Ordering) > 0
    /\ out # None
    /\ prev # None

\* the place of a clause keyword in the order of a SELECT's clauses; 0 for
\* every other token
KeywordRank(s) ==
    CASE s = "SELECT"   -> 1
      [] s = "DISTINCT" -> 2
      [] s = "FROM"     -> 3
      [] s = "JOIN"     -> 4
      [] s = "WHERE"    -> 5
      [] s = "GROUP BY" -> 6
      [] s = "HAVING"   -> 7
      [] s = "ORDER BY" -> 8
      [] s \in {"NULLS FIRST", "NULLS LAST"} -> 9
      [] s = "LIMIT"    -> 10
      [] s = "OFFSET"   -> 11
      [] s \in {"FOR UPDATE", "FOR NO KEY UPDATE", "FOR SHARE", "FOR KEY SHARE"} -> 12
      [] OTHER          -> 0

RepeatableRanks == {4, 12}

\* the clause keywords of a text, in the order they occur
Keywords(sql) == SelectSeq(sql, LAMBDA tok : KeywordRank(tok.s) > 0)

Present(b) == IF b THEN 1 ELSE 0

\* what a SELECT has to begin with
ExpectedHead(stmt) ==
    <<Txt("SELECT")>>
        \o (IF stmt.IsDistinct THEN <<Txt("DISTINCT")>> ELSE <<>>)
        \o (IF stmt.IsDistinct /\ Len(stmt.DistinctColumns) > 0 THEN <<Txt("ON")>> ELSE <<>>)
        \o (IF Len(stmt.Columns) = 0 THEN <<Txt("*")>> ELSE Names(stmt.Columns))
        \o <<Txt("FROM"), Txt(stmt.Table)>>

\* C15: whatever the order of the builder calls, the rendered SELECT begins
\* with SELECT [DISTINCT [ON (cols)]], the columns or * for an empty column
\* list, and FROM table; its clause keywords occur in the order FROM, joins,
\* WHERE, GROUP BY, HAVING, ORDER BY, NULLS FIRST|LAST, LIMIT, OFFSET, locking
\* clauses, each optional clause is there exactly when it is populated, joins
\* and locking clauses keep their registration order, and the UNION [ALL]
\* statements follow all of them.
C15_SelectClauseOrder ==
    Rendered("select") =>
        LET top == TopLevelFrom(out.sql, 0)
            own == UntilUnion(top)
            kw == Keywords(own)
        IN  /\ SubSeq(own, 1, Len(ExpectedHead(st))) = ExpectedHead(st)
            /\ \A i \in 1..(Len(kw) - 1) :
                    \/ KeywordRank(kw[i].s) < KeywordRank(kw[i + 1].s)
                    \/ /\ KeywordRank(kw[i].s) = KeywordRank(kw[i + 1].s)
                       /\ KeywordRank(kw[i].s) \in RepeatableRanks
            /\ CountToken(own, Txt("JOIN")) = Len(st.Joins)
            /\ SelectSeq(own, LAMBDA tok : tok \in {Txt("j"), Txt("x")})
                    = [i \in 1..Len(st.Joins) |-> Txt(st.Joins[i].Table)]
            /\ CountToken(own, Txt("WHERE")) = Present(Len(st.Conditions) > 0)
            /\ CountToken(own, Txt("GROUP BY")) = Present(Len(st.Grouping) > 0)
            /\ CountToken(own, Txt("HAVING")) = Present(Len(st.GroupConditions) > 0)
            /\ CountToken(own, Txt("ORDER BY")) = Present(Len(st.Ordering) > 0)
            /\ CountToken(own, Txt("NULLS FIRST"))
                    = Present(Len(st.Ordering) > 0 /\ st.orderWithNulls.Enabled
                                  /\ st.orderWithNulls.First)
            /\ CountToken(own, Txt("NULLS LAST"))
                    = Present(Len(st.Ordering) > 0 /\ st.orderWithNulls.Enabled
                                  /\ ~st.orderWithNulls.First)
            /\ CountToken(own, Txt("LIMIT")) = Present(st.LimitTo > 0)
            /\ CountToken(own, Txt("OFFSET")) = Present(st.OffsetFrom > 0)
            /\ SelectSeq(own, LAMBDA tok : KeywordRank(tok.s) = 12)
                    = [i \in 1..Len(st.Locks) |-> Txt(LockStrengthString(st.Locks[i].Strength))]
            /\ CountToken(top, Txt("UNION")) = Len(st.Unions)
            /\ Len(st.Unions) = 0 => top = own
            /\ Len(st.Unions) > 0 =>
                    /\ top[Len(own) + 1] = Txt("UNION")
                    /\ (top[Len(own) + 2] = Txt("ALL")) <=> st.IsUnionAll

\* C15 witness: Limit was called after Offset, a lock and a union on a SELECT
\* without columns, and the text has LIMIT before OFFSET
C15_Witness ==
    /\ Rendered("select")
    /\ last # None
    /\ last.op = "Limit"
    /\ last.arg > 0
    /\ last.before.OffsetFrom > 0
    /\ Len(last.before.Unions) > 0
    /\ st.Columns = <<>>
    /\ IsInfix(<<Txt("*"), Txt("FROM")>>, out.sql)
    /\ IsInfix(<<Txt("LIMIT"), Txt("10"), Txt("OFFSET"), Txt("20"), Txt("UNION")>>, out.sql)

\* C16: the rendered SELECT has LIMIT n exactly when the recorded limit n is
\* greater than zero and OFFSET n exactly when the recorded offset start n is
\* greater than zero; after Limit(0) or Offset(0) the clause is not in the
\* text, also when an earlier call had recorded a non-zero value.
C16_LimitOffsetOnlyWhenPositive ==
    Rendered("select") =>
        LET own == OwnClauses(out.sql)
        IN  /\ (CountToken(own, Txt("LIMIT")) > 0) <=> (st.LimitTo > 0)
            /\ st.LimitTo > 0 => IsInfix(<<Txt("LIMIT"), Txt(ToString(st.LimitTo))>>, own)
            /\ (CountToken(own, Txt("OFFSET")) > 0) <=> (st.OffsetFrom > 0)
            /\ st.OffsetFrom > 0 =>
                    IsInfix(<<Txt("OFFSET"), Txt(ToString(st.OffsetFrom))>>, own)
            /\ (last # None /\ last.op = "Limit") =>
                    ((CountToken(own, Txt("LIMIT")) > 0) <=> (last.arg > 0))
            /\ (last # None /\ last.op = "Offset") =>
                    ((CountToken(own, Txt("OFFSET")) > 0) <=> (last.arg > 0))

\* C16 witness: Limit(0) was called on a SELECT that had a limit and an
\* offset, and the text rendered afterwards has OFFSET and no LIMIT
C16_Witness ==
    /\ Rendered("select")
    /\ last # None
    /\ last.op = "Limit"
    /\ last.arg = 0
    /\ last.before.LimitTo > 0
    /\ st.OffsetFrom > 0
    /\ CountToken(out.sql, Txt("LIMIT")) = 0
    /\ CountToken(out.sql, Txt("OFFSET")) = 1

(***************************************************************************)
(* DELETE and UPDATE.                                                      *)
(***************************************************************************)
\* the position of the first occurrence of a token in a text, 0 if none
IndexOf(sql, tok) ==
    IF \E i \in 1..Len(sql) : sql[i] = tok
    THEN CHOOSE i \in 1..Len(sql) : sql[i] = tok /\ \A j \in 1..(i - 1) : sql[j] # tok
    ELSE 0

\* C17: a rendered DELETE begins with DELETE FROM table, continues with
\* USING and the tables of the Using call when there was one, then has WHERE
\* exactly when there are conditions and RETURNING exactly when there are
\* return columns, WHERE before RETURNING, and its bindings are the bindings
\* of the WHERE conditions.
C17_DeleteClauseOrder ==
    Rendered("delete") =>
        LET top == TopLevelFrom(out.sql, 0)
        IN  /\ SubSeq(top, 1, 2) = <<Txt("DELETE FROM"), Txt(st.Table)>>
            /\ (last # None /\ last.op = "Using") =>
                    IsInfix(<<Txt("DELETE FROM"), Txt(st.Table), Txt("USING")>>
                                \o Names(last.arg), top)
            /\ CountToken(top, Txt("WHERE")) = Present(Len(st.Conditions) > 0)
            /\ CountToken(top, Txt("RETURNING")) = Present(Len(st.Return) > 0)
            /\ (Len(st.Conditions) > 0 /\ Len(st.Return) > 0) =>
                    IndexOf(top, Txt("WHERE")) < IndexOf(top, Txt("RETURNING"))
            /\ out.bindings
                   = parseConditions(st.Conditions, [bt |-> bindType, ord |-> <<>>]).bindings

\* C18: after SetIf(col, v, false) the statement is the statement before
\* the call, and what ToSQL then returns is what it returns for the statement
\* before the call; after SetIf(col, v, true) the column is assigned v, every
\* other assignment and every other field is as before, and the statement is
\* the one Set(col, v) gives.
C18_SetIfFalseIsNoOp ==
    (last # None /\ last.op = "SetIf") =>
        /\ ~last.arg =>
               /\ st = last.before
               /\ out # None =>
                      out = Render(last.before, out.rebind, [bt |-> bindType, ord |-> out.ord])
        /\ last.arg =>
               /\ DOMAIN st.Updates = (DOMAIN last.before.Updates) \cup {"alpha"}
               /\ st.Updates["alpha"] = IntV(2)
               /\ \A c \in (DOMAIN st.Updates) \ {"alpha"} :
                      st.Updates[c] = last.before.Updates[c]
               /\ \A f \in (DOMAIN st) \ {"Updates"} : st[f] = last.before[f]
               /\ st = UpdateSet(last.before, "alpha", IntV(2))

\* C18 witness: SetIf with a false flag was called on an UPDATE that has an
\* assignment to another column and a condition, and ToSQL was called after it
C18_Witness ==
    /\ last # None
    /\ last.op = "SetIf"
    /\ ~last.arg
    /\ "alpha" \notin DOMAIN st.Updates
    /\ DOMAIN st.Updates # {}
    /\ Len(st.Conditions) > 0
    /\ Rendered("update")

\* SetIf with a true flag was called on an UPDATE that assigned another value
\* to the column
C18_WitnessTrue ==
    /\ last # None
    /\ last.op = "SetIf"
    /\ last.arg
    /\ "alpha" \in DOMAIN last.before.Updates
    /\ last.before.Updates["alpha"] # IntV(2)

(***************************************************************************)
(* Error handlers.                                                         *)
(***************************************************************************)
\* C19: an executing call returns the error the executor produced, and
\* calls every handler passed to New once, in the order they were passed,
\* each with that error, the nil error of a call that succeeded included.
C19_HandlersSeeReturnedError ==
    ex.call # None =>
        /\ ex.call.returned = ex.call.produced
        /\ Len(ex.call.invoked) = Len(ex.registered)
        /\ \A i \in 1..Len(ex.registered) :
               ex.call.invoked[i] = [handler |-> ex.registered[i], err |-> ex.call.produced]

\* C19 witness: the second call on a statement of a handle with two
\* different handlers failed, and both handlers were called
C19_Witness ==
    /\ ex.call # None
    /\ ex.n = 2
    /\ Len(ex.registered) = 2
    /\ ex.registered[1] # ex.registered[2]
    /\ ex.call.method = "GetAllAsMaps"
    /\ ex.call.produced \in ExecErrors
    /\ Len(ex.call.invoked) = 2

(***************************************************************************)
(* Concurrent renders.                                                     *)
(***************************************************************************)
\* C20: the statement is the one the renders were given, whatever calls have
\* begun or returned, and every ToSQL call that returned while others ran
\* returned the SQL and the bindings of the render that was made alone.
C20_ConcurrentRendersAgree ==
    /\ rd.stmt = rd.given
    /\ \A r \in Readers :
           rd.reader[r].pc = "done" =>
               /\ rd.reader[r].res.sql = rd.alone.sql
               /\ rd.reader[r].res.bindings = rd.alone.bindings

(***************************************************************************)
(* parseConditions.                                                        *)
(***************************************************************************)
\* what each condition of the list renders as on its own
EachParsed ==
    [i \in 1..Len(cond.conds) |-> CondParse(cond.conds[i], [bt |-> bindType, ord |-> <<>>])]

\* a text without its first and last token
Inner(sql) == SubSeq(sql, 2, Len(sql) - 1)

\* C21: for an empty list parseConditions returns the empty text and no
\* bindings; for one condition the condition's bindings and the condition's
\* text, to which it adds no parenthesis (the text is the condition's, or the
\* condition's without a first '(' and a last ')'); for more conditions the
\* texts of the conditions, each with the parentheses it has on its own,
\* joined by AND in list order with no parentheses around the whole, and the
\* conditions' bindings in list order.
C21_ParseConditionsJoinsWithAnd ==
    parsed # None =>
        /\ Len(cond.conds) = 0 => parsed = Result(<<>>, <<>>)
        /\ Len(cond.conds) = 1 =>
               /\ parsed.bindings = EachParsed[1].bindings
               /\ \/ parsed.sql = EachParsed[1].sql
                  \/ /\ Head(EachParsed[1].sql) = Txt("(")
                     /\ EachParsed[1].sql[Len(EachParsed[1].sql)] = Txt(")")
                     /\ parsed.sql = Inner(EachParsed[1].sql)
        /\ Len(cond.conds) > 1 =>
               /\ parsed.sql
                      = Join([i \in 1..Len(cond.conds) |-> EachParsed[i].sql], <<Txt("AND")>>)
               /\ parsed.bindings
                      = Concat([i \in 1..Len(cond.conds) |-> EachParsed[i].bindings])

\* C21 witness: a list of three conditions, the second of them an Or group
\* with an And group inside, was parsed
C21_Witness ==
    /\ parsed # None
    /\ Len(cond.conds) = 3
    /\ cond.conds[2].k = "andor"
    /\ cond.conds[2].Or
    /\ cond.conds[1].k = "simple"
    /\ Len(parsed.bindings) > 3

\* a text's parentheses are balanced: none closes what was not opened, and
\* all that were opened are closed
RECURSIVE BalancedFrom(_, _)
BalancedFrom(sql, depth) ==
    IF sql = <<>> THEN depth = 0
    ELSE IF Head(sql) = Txt("(") THEN BalancedFrom(Tail(sql), depth + 1)
    ELSE IF Head(sql) = Txt(")") THEN depth > 0 /\ BalancedFrom(Tail(sql), depth - 1)
    ELSE BalancedFrom(Tail(sql), depth)

Balanced(sql) == BalancedFrom(sql, 0)

\* C22: when the text of every condition of the list has balanced
\* parentheses, the text parseConditions returns has balanced parentheses.
C22_ParseConditionsKeepsBalance ==
    (parsed # None /\ \A i \in 1..Len(cond.conds) : Balanced(EachParsed[i].sql)) =>
        Balanced(parsed.sql)

(***************************************************************************)
(* Condition clauses and unions.                                           *)
(***************************************************************************)
\* the tokens that end a condition: the keyword of a later clause, or the
\* parenthesis that closes a nested statement
AfterCondition ==
    {"INNER", "LEFT", "RIGHT", "FULL", "WHERE", "GROUP BY", "HAVING", "ORDER BY",
     "LIMIT", "OFFSET", "FOR UPDATE", "FOR NO KEY UPDATE", "FOR SHARE", "FOR KEY SHARE",
     "UNION", "RETURNING", ")"}

\* C23: in a rendered statement every ON, WHERE and HAVING is followed by
\* a condition, never by the end of the text or by the next clause; and a
\* SELECT has WHERE exactly when it has conditions and HAVING exactly when it
\* has group conditions.
C23_NoKeywordWithoutCondition ==
    (out # None /\ ~out.panic) =>
        /\ \A i \in 1..Len(out.sql) :
               out.sql[i] \in {Txt("ON"), Txt("WHERE"), Txt("HAVING")} =>
                   /\ i < Len(out.sql)
                   /\ out.sql[i + 1].s \notin AfterCondition
        /\ st.k = "select" =>
               /\ CountToken(OwnClauses(out.sql), Txt("WHERE"))
                      = Present(Len(st.Conditions) > 0)
               /\ CountToken(OwnClauses(out.sql), Txt("HAVING"))
                      = Present(Len(st.GroupConditions) > 0)

\* the statements the Union and UnionAll calls added, in call order
RECURSIVE Unioned(_)
Unioned(log) ==
    IF log = <<>> THEN <<>> ELSE Head(log).arg \o Unioned(Tail(log))

\* what a unioned statement has to render as behind its keyword
UnionedSQL(stmt) == SQLStmtToSQL(stmt, FALSE, [bt |-> bindType, ord |-> <<>>])

\* C29: the rendered SELECT ends with the statements of all its Union and
\* UnionAll calls in call order, every one behind UNION ALL if UnionAll was
\* among the calls and behind UNION otherwise, and its bindings end with the
\* bindings of those statements in the same order.
C29_OneUnionKeyword ==
    (Rendered("select") /\ "log" \in DOMAIN last) =>
        LET all == Unioned(last.log)
            kw == IF \E i \in 1..Len(last.log) : last.log[i].op = "UnionAll"
                  THEN <<Txt("UNION"), Txt("ALL")>> ELSE <<Txt("UNION")>>
            sqls == Concat([i \in 1..Len(all) |-> kw \o UnionedSQL(all[i]).sql])
            binds == Concat([i \in 1..Len(all) |-> UnionedSQL(all[i]).bindings])
            sql == Unrebind(out.sql)
        IN  /\ Len(sqls) <= Len(sql)
            /\ SubSeq(sql, Len(sql) - Len(sqls) + 1, Len(sql)) = sqls
            /\ CountToken(TopLevelFrom(sql, 0), Txt("UNION")) = Len(all)
            /\ Len(binds) <= Len(out.bindings)
            /\ SubSeq(out.bindings, Len(out.bindings) - Len(binds) + 1, Len(out.bindings))
                   = binds

\* C29 witness: Union, then UnionAll, then ToSQL on a SELECT with a
\* condition of its own
C29_Witness ==
    /\ Rendered("select")
    /\ "log" \in DOMAIN last
    /\ Len(last.log) = 2
    /\ last.log[1].op = "Union"
    /\ Len(last.log[1].arg) = 2
    /\ last.log[2].op = "UnionAll"
    /\ Len(st.Conditions) > 0
    /\ Len(out.bindings) = 4

(***************************************************************************)
(* Comparisons and array comparisons.                                      *)
(***************************************************************************)
\* the operators of Eq, Ne, Gt, Gte, Lt, Lte, Like, NotLike and ILike
TwoSided == {Comparison(f, "", NilV).Operator : f \in CompareOps}

\* C24: a parsed two-sided comparison is `left OP <reference>` with the
\* reference's bindings when its right value is indirect, and `left OP ?`
\* with the right value as its one binding for every other right value, nil
\* included; IS NULL and IS NOT NULL carry no placeholder and no binding.
C24_ComparisonBindsItsValue ==
    (cond # None /\ parsed # None /\ cond.k = "simple") =>
        LET head == <<Txt(cond.Left)>> \o cond.Operator
        IN  /\ (cond.Operator \in TwoSided /\ cond.Right.k = "indirect") =>
                   parsed = Result(head \o cond.Right.Reference, cond.Right.Bindings)
            /\ (cond.Operator \in TwoSided /\ cond.Right.k # "indirect") =>
                   parsed = Result(head \o <<QMark(cond.Right)>>, <<cond.Right>>)
            /\ cond.Operator \in {<<Txt("IS NULL")>>, <<Txt("IS NOT NULL")>>} =>
                   parsed = Result(head, <<>>)

\* what the claim gives one side of an array comparison
SideOf(value) ==
    IF value.k = "indirect" THEN Result(value.Reference, value.Bindings)
    ELSE Result(<<QMark(value)>>, <<value>>)

\* C25: a parsed array comparison is `left OP QUANT(right)`, where a side
\* that is indirect is its reference with its bindings, any other side is a
\* '?' with the value bound, a right side that is a list of integers is a '?'
\* bound to one array literal, and the left bindings precede the right ones.
C25_ArraySidesIndependent ==
    (cond # None /\ parsed # None /\ cond.k = "array") =>
        LET left == SideOf(cond.Left)
            right == IF cond.Right.k = "ints"
                     THEN SideOf(StrV(ArrayLiteral(cond.Right.is)))
                     ELSE SideOf(cond.Right)
        IN  parsed = Result(left.sql \o <<Txt(cond.Operator), Txt(cond.Type), Txt("(")>>
                                \o right.sql \o <<Txt(")")>>,
                            left.bindings \o right.bindings)

(***************************************************************************)
(* Rebinding.                                                              *)
(***************************************************************************)
\* the numbers of the rebound placeholders of a text, from left to right
RECURSIVE MarkerNumbers(_)
MarkerNumbers(sql) ==
    IF sql = <<>> THEN <<>>
    ELSE (IF Head(sql).t = "dollar" THEN <<Head(sql).n>> ELSE <<>>)
         \o MarkerNumbers(Tail(sql))

\* C26: the text ToSQL(false) returns has no rebound placeholder, whatever
\* the kind of the statement and whatever it nests; the text ToSQL(true)
\* returns on a PostgreSQL handle has every placeholder rebound, numbered
\* 1, 2, ... from left to right.
C26_ReboundOnlyByOutermost ==
    (out # None /\ ~out.panic) =>
        /\ ~out.rebind => \A i \in 1..Len(out.sql) : out.sql[i].t # "dollar"
        /\ (out.rebind /\ bindType = "DOLLAR") =>
               /\ \A i \in 1..Len(out.sql) : out.sql[i].t # "ph"
               /\ MarkerNumbers(out.sql) = [i \in 1..Len(MarkerNumbers(out.sql)) |-> i]

(***************************************************************************)
(* ConflictClause: what Set, SetIf and SetMap record.                      *)
(***************************************************************************)
\* the number of assignments a logged call is to record
Records(asked) ==
    IF asked.action # DoUpdateAction THEN 0
    ELSE IF asked.call = "SetMap" THEN Cardinality(DOMAIN asked.vals)
    ELSE IF asked.b THEN 1 ELSE 0

RECURSIVE Recorded(_)
Recorded(log) == IF log = <<>> THEN 0 ELSE Records(Head(log)) + Recorded(Tail(log))

\* C27: at every point of a ConflictClause's construction SetCols and
\* SetVals have the same length, which is the number of assignments asked
\* for by Set, true SetIf and SetMap calls made while the action was DO
\* UPDATE: calls made before DoUpdate and SetIf calls with a false guard
\* record nothing.
C27_SetsRecordedOnlyForDoUpdate ==
    cf # None =>
        /\ Len(cf.clause.SetCols) = Len(cf.clause.SetVals)
        /\ Len(cf.clause.SetCols) = Recorded(cf.log)

\* C27 witness: a Set call made before DoUpdate, then DoUpdate and a SetMap
\* call that records two assignments
C27_Witness ==
    /\ cf # None
    /\ Len(cf.log) = 2
    /\ cf.log[1].call = "SetIf"
    /\ cf.log[1].b
    /\ cf.log[1].action # DoUpdateAction
    /\ cf.log[2].call = "SetMap"
    /\ cf.log[2].action = DoUpdateAction
    /\ Len(cf.clause.SetCols) = 2

(***************************************************************************)
(* TransactionalContext: failures of BeginTxx and of Commit.               *)
(***************************************************************************)
\* C28: when BeginTxx fails, the callback is not run, neither Commit nor
\* Rollback is called and the call returns the begin error wrapped in
\* "failed starting transaction"; when the callback returned nil and Commit
\* failed, the call returns the commit error wrapped in "failed committing
\* transaction" and Rollback is not called; a call made through
\* Transactional begins with a background context and with the last of the
\* options given, or with nil when none was given.
C28_BeginAndCommitFailures ==
    txn # None =>
        /\ txn.bgErr # NoError =>
               /\ txn.cbRuns = 0
               /\ txn.commits = 0
               /\ txn.rollbacks = 0
               /\ txn.pc = "returned"
               /\ txn.ret = Wrap("failed starting transaction", txn.bgErr)
        /\ (txn.pc = "returned" /\ txn.bgErr = NoError
                /\ txn.cbErr = NoError /\ txn.cmErr # NoError) =>
               /\ txn.ret = Wrap("failed committing transaction", txn.cmErr)
               /\ txn.commits = 1
               /\ txn.rollbacks = 0
        /\ txn.given # None =>
               /\ txn.ctx = "Background"
               /\ txn.opts = IF txn.given.list = <<>> THEN NilV
                             ELSE txn.given.list[Len(txn.given.list)]

\* C28 witness: a call made through Transactional with two options has
\* returned after the callback returned nil and Commit failed
C28_Witness ==
    /\ txn # None
    /\ txn.given # None
    /\ Len(txn.given.list) = 2
    /\ txn.pc = "returned"
    /\ txn.cbRuns = 1
    /\ txn.cbErr = NoError
    /\ txn.cmErr # NoError

\* a call whose BeginTxx failed has returned
C28_WitnessBegin ==
    /\ txn # None
    /\ txn.bgErr # NoError
    /\ txn.pc = "returned"

(***************************************************************************)
(* SELECT builders: what appends and what overwrites.                      *)
(***************************************************************************)
\* the arguments of the logged calls of one method, concatenated in call order
RECURSIVE Appended(_, _)
Appended(log, op) ==
    IF log = <<>> THEN <<>>
    ELSE (IF Head(log).op = op THEN Head(log).arg ELSE <<>>) \o Appended(Tail(log), op)

\* the logged calls of one method, in call order
RECURSIVE CallsOf(_, _)
CallsOf(log, op) ==
    IF log = <<>> THEN <<>>
    ELSE (IF Head(log).op = op THEN <<Head(log).arg>> ELSE <<>>) \o CallsOf(Tail(log), op)

\* the argument of the last logged call of one method, or a default
LastOf(log, op, default) ==
    LET args == CallsOf(log, op)
    IN  IF args = <<>> THEN default ELSE args[Len(args)]

\* the row counts passed to the logged Offset calls that passed one
RECURSIVE RowCounts(_)
RowCounts(log) ==
    IF log = <<>> THEN <<>>
    ELSE (IF Head(log).op = "Offset" /\ Head(log).arg[2] # <<>>
          THEN Head(log).arg[2] ELSE <<>>) \o RowCounts(Tail(log))

\* C30: after any sequence of builder calls on a SELECT, its conditions,
\* group conditions, grouping, ordering, joins, locks and unions are the
\* arguments of the Where, Having, GroupBy, OrderBy, join, Lock and Union
\* calls in call order, while the table, the limit, the distinct columns and
\* the offset start are those of the last From, Limit, Distinct and Offset
\* call, and the offset row count is that of the last Offset call that
\* passed one.
C30_AppendersAndOverwriters ==
    (st # None /\ "log" \in DOMAIN last) =>
        /\ st.Conditions = Appended(last.log, "Where")
        /\ st.GroupConditions = Appended(last.log, "Having")
        /\ st.Grouping = Appended(last.log, "GroupBy")
        /\ st.Ordering = Appended(last.log, "OrderBy")
        /\ st.Joins = Appended(last.log, "Join")
        /\ st.Locks = Appended(last.log, "Lock")
        /\ st.Unions = Appended(last.log, "Union")
        /\ st.Table = LastOf(last.log, "From", "")
        /\ st.LimitTo = LastOf(last.log, "Limit", 0)
        /\ st.DistinctColumns = LastOf(last.log, "Distinct", <<>>)
        /\ st.IsDistinct = (CallsOf(last.log, "Distinct") # <<>>)
        /\ st.OffsetFrom = LastOf(last.log, "Offset", <<0, <<>>>>)[1]
        /\ st.OffsetRows = (IF RowCounts(last.log) = <<>> THEN 0
                            ELSE RowCounts(last.log)[Len(RowCounts(last.log))])

\* C30 witness: Offset with a row count, Where, then Offset without a row
\* count: the start is the second call's, the row count the first call's
C30_Witness ==
    /\ st # None
    /\ "log" \in DOMAIN last
    /\ Len(last.log) = 3
    /\ last.log[1].op = "Offset"
    /\ last.log[1].arg[2] # <<>>
    /\ last.log[2].op = "Where"
    /\ last.log[3].op = "Offset"
    /\ last.log[3].arg[2] = <<>>
    /\ st.OffsetFrom = 20
    /\ st.OffsetRows = 7

====
